---- MODULE Spec2Model ----
(***************************************************************************)
(* A model of lib/CrabLlvm/CfgBuilder.cc: the translation of an LLVM       *)
(* function into a Crab CFG (condition lowering, phi lowering, instruction *)
(* lowering and the per-function orchestration of build_cfg).              *)
(***************************************************************************)
EXTENDS Integers, Sequences, FiniteSets, TLC

VARIABLES
  pc,     \* position of the running operation
  input,  \* what the translator was given: IR as handed in, options, oracle
  ir,     \* the live IR (the translator holds non-const references to it)
  cfg,    \* the Crab CFG under construction: nodes, edges, statements, exit
  bld,    \* CfgBuilder's own fields and loop positions
  vfac,   \* VariableFactory: number of fresh names issued so far
  last    \* log of the visitor calls made so far and what each returned

vars == <<pc, input, ir, cfg, bld, vfac, last>>

(***************************************************************************)
(* Bounds of the model.                                                    *)
(***************************************************************************)
ValBound == 2
MaxPhis == 3
MaxArrays == 2
MaxBlocks == 3
MaxCalls == 2

Vals == (0 - ValBound) .. ValBound

None == [e |-> "none"]

RECURSIVE SeqRange(_)
SeqRange(s) == IF s = <<>> THEN {} ELSE {Head(s)} \cup SeqRange(Tail(s))

Idx(s) == 1 .. Len(s)

(***************************************************************************)
(* IR values.  An operand is a constant integer, a function argument, the  *)
(* result of an instruction, or undef.                                     *)
(***************************************************************************)
ConstV(t, n) == [k |-> "const", ty |-> t, id |-> n]
ArgV(t, n)   == [k |-> "arg",   ty |-> t, id |-> n]
InstV(t, n)  == [k |-> "inst",  ty |-> t, id |-> n]
UndefV(t)    == [k |-> "undef", ty |-> t, id |-> 0]

isIntegerTy(t) == t \in {"i1", "int"}

\* getType (Type*): 72-80
getType(t) ==
  IF isIntegerTy(t) THEN "INT_TYPE"
  ELSE IF t = "ptr" THEN "PTR_TYPE"
  ELSE "UNK_TYPE"

(***************************************************************************)
(* SymEval (crab_llvm/SymEval.hh): symbolic names and operand lookup.      *)
(***************************************************************************)
LevelRank(l) == CASE l = "NONE" -> 0 [] l = "REGISTERS" -> 1 [] l = "ARRAYS" -> 2

isTracked(ctx, v) ==
  IF v.ty = "ptr" THEN LevelRank(ctx.level) >= 1
  ELSE isIntegerTy(v.ty)

symVar(v) == [n |-> v.k, id |-> v.id]
symVarArr(a) == [n |-> "arr", id |-> a]
symVarFn(f) == [n |-> "fn", id |-> f]
FreshName(i) == [n |-> "fresh", id |-> i]

ExpCst(c) == [e |-> "cst", c |-> c]
ExpVar(x) == [e |-> "var", x |-> x]
isVar(e) == e.e = "var"
is_constant(e) == e.e = "cst"

lookup(ctx, v) ==
  IF v.k = "const" THEN (IF isIntegerTy(v.ty) THEN ExpCst(v.id) ELSE None)
  ELSE IF v.k = "undef" THEN None
  ELSE IF isTracked(ctx, v) THEN ExpVar(symVar(v))
  ELSE None

(***************************************************************************)
(* Linear constraints over the expressions above: l rel r + k.             *)
(***************************************************************************)
CstEq(a, b)    == [rel |-> "EQ", l |-> a, r |-> b, k |-> 0]
CstNe(a, b)    == [rel |-> "NE", l |-> a, r |-> b, k |-> 0]
CstLe(a, b, k) == [rel |-> "LE", l |-> a, r |-> b, k |-> k]
CstGe(a, b, k) == [rel |-> "GE", l |-> a, r |-> b, k |-> k]

negate(c) ==
  CASE c.rel = "EQ" -> [c EXCEPT !.rel = "NE"]
    [] c.rel = "NE" -> [c EXCEPT !.rel = "EQ"]
    [] c.rel = "LE" -> [c EXCEPT !.rel = "GE", !.k = c.k + 1]
    [] c.rel = "GE" -> [c EXCEPT !.rel = "LE", !.k = c.k - 1]

EvalExp(e, env) == IF e.e = "cst" THEN e.c ELSE env[e.x]

Holds(c, env) ==
  LET a == EvalExp(c.l, env)
      b == EvalExp(c.r, env) + c.k
  IN CASE c.rel = "EQ" -> a = b
       [] c.rel = "NE" -> a # b
       [] c.rel = "LE" -> a <= b
       [] c.rel = "GE" -> a >= b

HoldsAll(cs, env) == \A i \in Idx(cs) : Holds(cs[i], env)

\* The names a constraint reads.
CstNames(c) == {e.x : e \in {o \in {c.l, c.r} : isVar(o)}}

(***************************************************************************)
(* CFG statements.                                                         *)
(***************************************************************************)
StAssume(c)       == [op |-> "assume", cst |-> c]
StHavoc(x)        == [op |-> "havoc", lhs |-> x]
StAssign(x, e)    == [op |-> "assign", lhs |-> x, rhs |-> e]
StUnreachable     == [op |-> "unreachable"]
StSelectCst(x, c, e1, e2) == [op |-> "select", lhs |-> x, cond |-> c, t |-> e1, f |-> e2]
StSelectVar(x, b, e1, e2) == [op |-> "select", lhs |-> x, cond |-> ExpVar(b), t |-> e1, f |-> e2]
StCallsite(ret, f, actuals) == [op |-> "callsite", lhs |-> ret, fn |-> f, args |-> actuals]
StAssumeArray(a, v) == [op |-> "assume_array", lhs |-> a, val |-> v]
StRet(x, t)       == [op |-> "return", lhs |-> x, ty |-> t]

(***************************************************************************)
(* SymExecConditionVisitor.                                                *)
(***************************************************************************)
\* CmpInst::getInversePredicate, the predicate of the negated compare.
InversePred(p) ==
  CASE p = "UGT" -> "ULE" [] p = "ULE" -> "UGT"
    [] p = "UGE" -> "ULT" [] p = "ULT" -> "UGE"
    [] p = "SGT" -> "SLE" [] p = "SLE" -> "SGT"
    [] p = "SGE" -> "SLT" [] p = "SLT" -> "SGE"
    [] p = "EQ" -> "NE" [] p = "NE" -> "EQ"
    [] OTHER -> p

SwappedPred(p) ==
  CASE p = "UGT" -> "ULT" [] p = "ULT" -> "UGT"
    [] p = "UGE" -> "ULE" [] p = "ULE" -> "UGE"
    [] p = "SGT" -> "SLT" [] p = "SLT" -> "SGT"
    [] p = "SGE" -> "SLE" [] p = "SLE" -> "SGE"
    [] OTHER -> p

\* CmpInst::swapOperands: the predicate becomes the swapped predicate and
\* the two operands change places.
swapOperands(I) ==
  [I EXCEPT !.pred = SwappedPred(I.pred), !.ops = <<I.ops[2], I.ops[1]>>]

normalizeCmpInst(I) ==
  IF I.pred \in {"UGT", "SGT"} THEN swapOperands(I)
  ELSE IF I.pred \in {"UGE", "SGE"} THEN swapOperands(I)
  ELSE I

\* gen_assertion's switch with a break ending each unsigned case before the
\* signed one.
GenSwitchBreakAfterUnsigned(pred, op1, op2, neg) ==
  LET lower == (IF isVar(op1) THEN <<CstGe(op1, ExpCst(0), 0)>> ELSE <<>>)
               \o (IF isVar(op2) THEN <<CstGe(op2, ExpCst(0), 0)>> ELSE <<>>)
      slt == IF ~neg THEN <<CstLe(op1, op2, 0 - 1)>> ELSE <<CstGe(op1, op2, 0)>>
      sle == IF ~neg THEN <<CstLe(op1, op2, 0)>> ELSE <<CstGe(op1, op2, 1)>>
  IN CASE pred = "EQ" -> (IF ~neg THEN <<CstEq(op1, op2)>> ELSE <<CstNe(op1, op2)>>)
       [] pred = "NE" -> (IF ~neg THEN <<CstNe(op1, op2)>> ELSE <<CstEq(op1, op2)>>)
       [] pred = "ULT" -> lower
       [] pred = "SLT" -> slt
       [] pred = "ULE" -> lower
       [] pred = "SLE" -> sle
       [] OTHER -> <<>>

\* gen_assertion's switch with the negation of <= written as >= (not >= + 1).
GenSwitchWeakNegation(pred, op1, op2, neg) ==
  LET lower == (IF isVar(op1) THEN <<CstGe(op1, ExpCst(0), 0)>> ELSE <<>>)
               \o (IF isVar(op2) THEN <<CstGe(op2, ExpCst(0), 0)>> ELSE <<>>)
      slt == IF ~neg THEN <<CstLe(op1, op2, 0 - 1)>> ELSE <<CstGe(op1, op2, 0)>>
      sle == IF ~neg THEN <<CstLe(op1, op2, 0)>> ELSE <<CstGe(op1, op2, 0)>>
  IN CASE pred = "EQ" -> (IF ~neg THEN <<CstEq(op1, op2)>> ELSE <<CstNe(op1, op2)>>)
       [] pred = "NE" -> (IF ~neg THEN <<CstNe(op1, op2)>> ELSE <<CstEq(op1, op2)>>)
       [] pred = "ULT" -> lower \o slt
       [] pred = "SLT" -> slt
       [] pred = "ULE" -> lower \o sle
       [] pred = "SLE" -> sle
       [] OTHER -> <<>>

\* The switch of gen_assertion on the (normalized) predicate, with the
\* fall-through of the unsigned cases into the signed ones.
GenSwitch(pred, op1, op2, neg) ==
  LET lower == (IF isVar(op1) THEN <<CstGe(op1, ExpCst(0), 0)>> ELSE <<>>)
               \o (IF isVar(op2) THEN <<CstGe(op2, ExpCst(0), 0)>> ELSE <<>>)
      slt == IF ~neg THEN <<CstLe(op1, op2, 0 - 1)>> ELSE <<CstGe(op1, op2, 0)>>
      sle == IF ~neg THEN <<CstLe(op1, op2, 0)>> ELSE <<CstGe(op1, op2, 1)>>
  IN CASE pred = "EQ" -> (IF ~neg THEN <<CstEq(op1, op2)>> ELSE <<CstNe(op1, op2)>>)
       [] pred = "NE" -> (IF ~neg THEN <<CstNe(op1, op2)>> ELSE <<CstEq(op1, op2)>>)
       [] pred = "ULT" -> lower \o slt
       [] pred = "SLT" -> slt
       [] pred = "ULE" -> lower \o sle
       [] pred = "SLE" -> sle
       [] OTHER -> <<>>

\* Number of uses of instruction id: operand slots of instructions, branch
\* conditions and returned values that name it (Value::hasNUsesOrMore).
IsRef(v, id) == v.k = "inst" /\ v.id = id

NumUses(irx, id) ==
  Cardinality({u \in UNION {{<<i, j>> : j \in Idx(irx.insts[i].ops)} :
                                i \in DOMAIN irx.insts} :
                 IsRef(irx.insts[u[1]].ops[u[2]], id)})
  + Cardinality({b \in Idx(irx.blocks) :
                 /\ irx.blocks[b].term.op \in {"cbr", "ret", "switch"}
                 /\ IsRef(irx.blocks[b].term.cond, id)})

\* A variant of gen_assertion that reads the two operands before the
\* instruction is normalized.
gen_assertionOperandsFirst(ctx, irx, id, neg) ==
  LET I == normalizeCmpInst(irx.insts[id])
      op1 == lookup(ctx, irx.insts[id].ops[1])
      op2 == lookup(ctx, irx.insts[id].ops[2])
  IN [ir |-> [irx EXCEPT !.insts[id] = I],
      res |-> IF op1 # None /\ op2 # None
              THEN GenSwitch(I.pred, op1, op2, neg)
              ELSE <<>>]

\* gen_assertion (CmpInst &I): returns the constraint system and leaves the
\* instruction normalized in the IR.
gen_assertion(ctx, irx, id, neg) ==
  LET I == normalizeCmpInst(irx.insts[id])
      op1 == lookup(ctx, I.ops[1])
      op2 == lookup(ctx, I.ops[2])
  IN [ir |-> [irx EXCEPT !.insts[id] = I],
      res |-> IF op1 # None /\ op2 # None
              THEN GenSwitch(I.pred, op1, op2, neg)
              ELSE <<>>]

Assumes(cs) == [i \in Idx(cs) |-> StAssume(cs[i])]
AssumesNegated(cs) == [i \in Idx(cs) |-> StAssume(negate(cs[i]))]

isCmpInst(irx, v) == v.k = "inst" /\ irx.insts[v.id].op \in {"icmp", "fcmp"}

\* A variant that looks for the two compares under either polarity.
CondVisitBinaryOperatorAnyPolarity(ctx, S, id, neg) ==
  LET I == S.ir.insts[id]
      search == I.op \in {"and", "or"}
      C1 == IF search /\ isIntegerTy(I.ops[1].ty) /\ isCmpInst(S.ir, I.ops[1])
            THEN I.ops[1].id ELSE 0
      C2 == IF search /\ isIntegerTy(I.ops[2].ty) /\ isCmpInst(S.ir, I.ops[2])
            THEN I.ops[2].id ELSE 0
      hv == IF I.op \notin {"and", "or"} /\ isTracked(ctx, InstV(I.ty, id))
               /\ ctx.IncludeHavoc
            THEN <<StHavoc(symVar(InstV(I.ty, id)))>> ELSE <<>>
  IN IF C1 # 0 /\ C2 # 0
     THEN LET g1 == gen_assertion(ctx, S.ir, C1, neg)
              g2 == gen_assertion(ctx, g1.ir, C2, neg)
              e1 == IF neg THEN AssumesNegated(g1.res) ELSE Assumes(g1.res)
              e2 == IF neg THEN AssumesNegated(g2.res) ELSE Assumes(g2.res)
          IN [bb |-> S.bb \o hv \o e1 \o e2, ir |-> g2.ir]
     ELSE [bb |-> S.bb \o hv, ir |-> S.ir]

\* SymExecConditionVisitor::visitBinaryOperator.  S = [bb, ir].
CondVisitBinaryOperator(ctx, S, id, neg) ==
  LET I == S.ir.insts[id]
      search == (I.op = "and" /\ ~neg) \/ (I.op = "or" /\ neg)
      C1 == IF search /\ isIntegerTy(I.ops[1].ty) /\ isCmpInst(S.ir, I.ops[1])
            THEN I.ops[1].id ELSE 0
      C2 == IF search /\ isIntegerTy(I.ops[2].ty) /\ isCmpInst(S.ir, I.ops[2])
            THEN I.ops[2].id ELSE 0
      hv == IF I.op \notin {"and", "or"} /\ isTracked(ctx, InstV(I.ty, id))
               /\ ctx.IncludeHavoc
            THEN <<StHavoc(symVar(InstV(I.ty, id)))>> ELSE <<>>
  IN IF C1 # 0 /\ C2 # 0
     THEN LET g1 == gen_assertion(ctx, S.ir, C1, neg)
              g2 == gen_assertion(ctx, g1.ir, C2, neg)
              e1 == IF neg THEN AssumesNegated(g1.res) ELSE Assumes(g1.res)
              e2 == IF neg THEN AssumesNegated(g2.res) ELSE Assumes(g2.res)
          IN [bb |-> S.bb \o hv \o e1 \o e2, ir |-> g2.ir]
     ELSE [bb |-> S.bb \o hv, ir |-> S.ir]

\* A variant that adds the constraint on the compare's own variable
\* whatever the number of uses.
CondVisitCmpInstAnyUses(ctx, S, id, neg) ==
  LET I == S.ir.insts[id]
  IN IF ctx.NoPtrArith
        /\ (~isIntegerTy(I.ops[1].ty) \/ ~isIntegerTy(I.ops[2].ty))
     THEN S
     ELSE LET g == gen_assertion(ctx, S.ir, id, neg)
              lhs == symVar(InstV(I.ty, id))
          IN [bb |-> S.bb \o Assumes(g.res)
                      \o <<StAssume(CstEq(ExpVar(lhs),
                                          ExpCst(IF neg THEN 0 ELSE 1)))>>,
              ir |-> g.ir]

\* SymExecConditionVisitor::visitCmpInst.
CondVisitCmpInst(ctx, S, id, neg) ==
  LET I == S.ir.insts[id]
  IN IF ctx.NoPtrArith
        /\ (~isIntegerTy(I.ops[1].ty) \/ ~isIntegerTy(I.ops[2].ty))
     THEN S
     ELSE LET g == gen_assertion(ctx, S.ir, id, neg)
              lhs == symVar(InstV(I.ty, id))
              extra == IF NumUses(g.ir, id) >= 2
                       THEN <<StAssume(CstEq(ExpVar(lhs),
                                             ExpCst(IF neg THEN 0 ELSE 1)))>>
                       ELSE <<>>
          IN [bb |-> S.bb \o Assumes(g.res) \o extra, ir |-> g.ir]

BinaryOps == {"add", "sub", "mul", "sdiv", "udiv", "srem", "urem",
              "shl", "ashr", "lshr", "and", "or", "xor"}

\* InstVisitor dispatch of SymExecConditionVisitor: only compares and binary
\* operators have a handler.
CondVisit(ctx, S, id, neg) ==
  LET I == S.ir.insts[id]
  IN IF I.op \in {"icmp", "fcmp"} THEN CondVisitCmpInst(ctx, S, id, neg)
     ELSE IF I.op \in BinaryOps THEN CondVisitBinaryOperator(ctx, S, id, neg)
     ELSE S

(***************************************************************************)
(* IR instructions and the CFG value.                                      *)
(***************************************************************************)
ICmp(p, a, b) == [op |-> "icmp", ty |-> "i1", pred |-> p, ops |-> <<a, b>>]
BinOp(o, t, a, b) == [op |-> o, ty |-> t, pred |-> "", ops |-> <<a, b>>]
ZExt(a) == [op |-> "zext", ty |-> "int", pred |-> "", ops |-> <<a>>]

IrLabel(b) == [b |-> "ir", id |-> b]
ExtraLabel(i) == [b |-> "extra", id |-> i]
NoLabel == [b |-> "none", id |-> 0]

\* crab cfg constructor: the entry label and nothing else; no exit yet.
NewCfg(entry) ==
  [nodes |-> {}, edges |-> {}, stmts |-> <<>>, entry |-> entry,
   exit |-> NoLabel, decl |-> None]

\* Cfg::insert (label): a new empty node.
CfgInsert(g, l) ==
  [g EXCEPT !.nodes = g.nodes \cup {l},
            !.stmts = [x \in g.nodes \cup {l} |->
                         IF x \in g.nodes THEN g.stmts[x] ELSE <<>>]]

Preds == {"EQ", "NE", "UGT", "UGE", "ULT", "ULE", "SGT", "SGE", "SLT", "SLE"}

X == ArgV("int", 1)
Y == ArgV("int", 2)
P == ArgV("ptr", 3)
Q == ArgV("ptr", 4)
B == ArgV("i1", 5)
F == ArgV("flt", 6)
C0 == ConstV("int", 0)
C1 == ConstV("int", 1)
CM1 == ConstV("int", 0 - 1)

Ctx(level, noptr, interproc) ==
  [level |-> level, NoPtrArith |-> noptr, IncludeHavoc |-> TRUE,
   interproc |-> interproc, fname |-> "f"]

(***************************************************************************)
(* Condition lowering on its own: a boolean instruction (the root) is      *)
(* handed to the visitor, as execBr, verifier.assume and select do.        *)
(***************************************************************************)
CmpOperandPairs ==
  {<<X, Y>>, <<X, C0>>, <<C1, Y>>, <<CM1, C1>>, <<X, X>>, <<X, UndefV("int")>>,
   <<P, Q>>}

CondIR(c1, c2, b, z) ==
  [insts |-> <<c1, c2, b, z>>, blocks |-> <<>>]

CondInputs ==
  {[kind |-> "cond", root |-> 1, ctx |-> Ctx("ARRAYS", np, FALSE),
    ir |-> CondIR(ICmp(p, ab[1], ab[2]), ICmp("NE", Y, C0),
                  BinOp("and", "i1", InstV("i1", 1), InstV("i1", 2)),
                  ZExt(u))] :
      p \in Preds, ab \in CmpOperandPairs, np \in BOOLEAN,
      u \in {InstV("i1", 1), B}}
  \cup
  {[kind |-> "cond", root |-> 3, ctx |-> Ctx("ARRAYS", FALSE, FALSE),
    ir |-> CondIR(ICmp(p1, X, C0), ICmp(p2, ab2[1], ab2[2]),
                  BinOp(bo, "i1", InstV("i1", 1), o2), ZExt(u))] :
      p1 \in {"EQ", "SLT", "ULT", "SGE"}, p2 \in {"NE", "SLE", "UGT"},
      ab2 \in {<<Y, C1>>, <<X, Y>>}, bo \in {"and", "or", "xor"},
      o2 \in {InstV("i1", 2), B}, u \in {B, InstV("i1", 3)}}

CondBlock == IrLabel(1)

InitCond ==
  /\ input \in CondInputs
  /\ pc = "cond"
  /\ ir = input.ir
  /\ cfg = CfgInsert(NewCfg(CondBlock), CondBlock)
  /\ bld = None
  /\ vfac = 0
  /\ last = <<>>

\* A caller asks gen_assertion for the constraints of the root compare.
GenAssertion(neg) ==
  /\ pc = "cond"
  /\ Len(last) < MaxCalls
  /\ ir.insts[input.root].op = "icmp"
  /\ LET g == gen_assertion(input.ctx, ir, input.root, neg)
     IN /\ ir' = g.ir
        /\ last' = Append(last, [op |-> "gen_assertion", id |-> input.root,
                                 neg |-> neg, ret |-> g.res, at |-> 0, n |-> 0,
                                 inst |-> g.ir.insts[input.root]])
  /\ UNCHANGED <<pc, input, cfg, bld, vfac>>

\* A SymExecConditionVisitor with polarity neg visits the root.
CondVisitCall(neg) ==
  /\ pc = "cond"
  /\ Len(last) < MaxCalls
  /\ LET S == CondVisit(input.ctx, [bb |-> cfg.stmts[CondBlock], ir |-> ir],
                        input.root, neg)
     IN /\ ir' = S.ir
        /\ cfg' = [cfg EXCEPT !.stmts[CondBlock] = S.bb]
        /\ last' = Append(last, [op |-> "visit", id |-> input.root,
                                 neg |-> neg, ret |-> <<>>,
                                 at |-> Len(cfg.stmts[CondBlock]),
                                 n |-> Len(S.bb) - Len(cfg.stmts[CondBlock])])
  /\ UNCHANGED <<pc, input, bld, vfac>>

NextCond ==
  \/ \E neg \in BOOLEAN : GenAssertion(neg)
  \/ \E neg \in BOOLEAN : CondVisitCall(neg)

SpecCond == InitCond /\ [][NextCond]_vars

(***************************************************************************)
(* SymExecPhiVisitor.                                                      *)
(***************************************************************************)
Phi(t, vals, blks) ==
  [op |-> "phi", ty |-> t, pred |-> "", ops |-> vals, blks |-> blks]

\* PHINode::getIncomingValueForBlock: the value of the first entry for b.
getIncomingValueForBlock(I, b) ==
  I.ops[CHOOSE i \in Idx(I.blks) :
          I.blks[i] = b /\ \A j \in 1 .. (i - 1) : I.blks[j] # b]

\* dyn_cast<PHINode> (&v) with vv->getParent () == &BB
IsPhiOfBlock(irx, b, v) ==
  /\ v.k = "inst"
  /\ irx.insts[v.id].op = "phi"
  /\ v.id \in SeqRange(irx.blocks[b].phis)

\* A variant of the first loop that saves the old value at every read.
RECURSIVE PhiSaveOldEveryRead(_, _, _, _, _, _)
PhiSaveOldEveryRead(ctx, irx, b, inc, i, st) ==
  IF i > Len(irx.blocks[b].phis) THEN st
  ELSE
    LET phi == irx.insts[irx.blocks[b].phis[i]]
        v == getIncomingValueForBlock(phi, inc)
        x == lookup(ctx, v)
        save == /\ isTracked(ctx, v)
                /\ ~(ctx.NoPtrArith /\ ~isIntegerTy(phi.ty))
                /\ IsPhiOfBlock(irx, b, v)
                /\ x # None
        oldVal == FreshName(st.vfac + 1)
    IN PhiSaveOldEveryRead(ctx, irx, b, inc, i + 1,
         IF save
         THEN [bb |-> Append(st.bb, StAssign(oldVal, x)),
               vfac |-> st.vfac + 1,
               old |-> [k \in DOMAIN st.old \cup {v.id} |->
                          IF k = v.id THEN ExpVar(oldVal) ELSE st.old[k]]]
         ELSE st)

\* First loop of visitBasicBlock, from the i-th phi on: the old values of
\* the same-block phis that are read.  st = [bb, vfac, old].
RECURSIVE PhiSaveOld(_, _, _, _, _, _)
PhiSaveOld(ctx, irx, b, inc, i, st) ==
  IF i > Len(irx.blocks[b].phis) THEN st
  ELSE
    LET phi == irx.insts[irx.blocks[b].phis[i]]
        v == getIncomingValueForBlock(phi, inc)
        x == lookup(ctx, v)
        save == /\ isTracked(ctx, v)
                /\ ~(ctx.NoPtrArith /\ ~isIntegerTy(phi.ty))
                /\ IsPhiOfBlock(irx, b, v)
                /\ x # None
                /\ v.id \notin DOMAIN st.old
        oldVal == FreshName(st.vfac + 1)
    IN PhiSaveOld(ctx, irx, b, inc, i + 1,
         IF save
         THEN [bb |-> Append(st.bb, StAssign(oldVal, x)),
               vfac |-> st.vfac + 1,
               old |-> [k \in DOMAIN st.old \cup {v.id} |->
                          IF k = v.id THEN ExpVar(oldVal) ELSE st.old[k]]]
         ELSE st)

\* The statement of the second loop for one phi, ignoring the saved old
\* values.
PhiAssignNoOldValue(ctx, phi, id, v, old) ==
  IF lookup(ctx, v) # None
  THEN StAssign(symVar(InstV(phi.ty, id)), lookup(ctx, v))
  ELSE StHavoc(symVar(InstV(phi.ty, id)))

\* The statement of the second loop for one phi: the saved old value first,
\* then lookup, then havoc.
PhiAssign(ctx, phi, id, v, old) ==
  LET lhs == symVar(InstV(phi.ty, id))
  IN IF v.k = "inst" /\ v.id \in DOMAIN old
     THEN StAssign(lhs, old[v.id])
     ELSE IF lookup(ctx, v) # None
          THEN StAssign(lhs, lookup(ctx, v))
          ELSE StHavoc(lhs)

\* Second loop of visitBasicBlock, from the i-th phi on.
RECURSIVE PhiAssignAll(_, _, _, _, _, _)
PhiAssignAll(ctx, irx, b, inc, i, st) ==
  IF i > Len(irx.blocks[b].phis) THEN st
  ELSE
    LET id == irx.blocks[b].phis[i]
        phi == irx.insts[id]
        skip == \/ ~isTracked(ctx, InstV(phi.ty, id))
                \/ (ctx.NoPtrArith /\ ~isIntegerTy(phi.ty))
    IN PhiAssignAll(ctx, irx, b, inc, i + 1,
         IF skip THEN st
         ELSE [st EXCEPT !.bb = Append(st.bb,
                 PhiAssign(ctx, phi, id, getIncomingValueForBlock(phi, inc),
                           st.old))])

\* A variant that stops after the first loop.
PhiVisitFirstLoopOnly(ctx, irx, b, inc, bb, nfresh) ==
  IF irx.blocks[b].phis = <<>> THEN [bb |-> bb, vfac |-> nfresh]
  ELSE
    LET s1 == PhiSaveOld(ctx, irx, b, inc, 1,
                         [bb |-> bb, vfac |-> nfresh, old |-> <<>>])
    IN [bb |-> s1.bb, vfac |-> s1.vfac]

\* A variant that puts the statements of the phis in front of what the
\* block holds.
PhiVisitAtFront(ctx, irx, b, inc, bb, nfresh) ==
  IF irx.blocks[b].phis = <<>> THEN [bb |-> bb, vfac |-> nfresh]
  ELSE
    LET s1 == PhiSaveOld(ctx, irx, b, inc, 1,
                         [bb |-> <<>>, vfac |-> nfresh, old |-> <<>>])
        s2 == PhiAssignAll(ctx, irx, b, inc, 1, s1)
    IN [bb |-> s2.bb \o bb, vfac |-> s2.vfac]

\* SymExecPhiVisitor::visitBasicBlock (BB) with m_bb = bb and m_inc_BB = inc;
\* returns the block's statements and the variable factory's counter.
PhiVisitBasicBlock(ctx, irx, b, inc, bb, nfresh) ==
  IF irx.blocks[b].phis = <<>> THEN [bb |-> bb, vfac |-> nfresh]
  ELSE
    LET s1 == PhiSaveOld(ctx, irx, b, inc, 1,
                         [bb |-> bb, vfac |-> nfresh, old |-> <<>>])
        s2 == PhiAssignAll(ctx, irx, b, inc, 1, s1)
    IN [bb |-> s2.bb, vfac |-> s2.vfac]

(***************************************************************************)
(* SymExecVisitor: calls.                                                  *)
(***************************************************************************)
Call(t, f, args) ==
  [op |-> "call", ty |-> t, pred |-> "", ops |-> args, callee |-> f]

\* A function of the module: its name and signature.
Function(name, args, ret, vararg, decl, intrinsic) ==
  [name |-> name, args |-> args, ret |-> ret, isVarArg |-> vararg,
   isDeclaration |-> decl, isIntrinsic |-> intrinsic]

FormalV(t, i) == [k |-> "formal", ty |-> t, id |-> i]

\* A variant that takes memmove for memcpy.
StartsWithAnyCopy(name, prefix) ==
  CASE prefix = "shadow.mem" -> name \in {"shadow.mem.load", "shadow.mem.store"}
    [] prefix = "llvm.dbg" -> name \in {"llvm.dbg.value", "llvm.dbg.declare"}
    [] prefix = "llvm.memset" -> name \in {"llvm.memset.p0i8.i32"}
    [] prefix = "llvm.memcpy" -> name \in {"llvm.memcpy.p0i8.p0i8.i32",
                                           "llvm.memmove.p0i8.p0i8.i32"}
    [] OTHER -> FALSE

\* StringRef::startswith over the names the model uses.
StartsWith(name, prefix) ==
  CASE prefix = "shadow.mem" -> name \in {"shadow.mem.load", "shadow.mem.store"}
    [] prefix = "llvm.dbg" -> name \in {"llvm.dbg.value", "llvm.dbg.declare"}
    [] prefix = "llvm.memset" -> name \in {"llvm.memset.p0i8.i32"}
    [] prefix = "llvm.memcpy" -> name \in {"llvm.memcpy.p0i8.p0i8.i32"}
    [] OTHER -> FALSE

\* MemAnalysis::getArrayId: negative when the pointer has no array.
getArrayId(mem, v) == IF v \in DOMAIN mem.aid THEN mem.aid[v] ELSE 0 - 1

\* normalizeParam: a constant actual is first bound to a fresh name.
\* st = [bb, vfac, actuals].
normalizeParam(ctx, st, v) ==
  IF v.k \in {"const", "undef"}
  THEN LET fresh == FreshName(st.vfac + 1)
           e == IF v.k = "const" THEN lookup(ctx, v) ELSE None
       IN IF e # None
          THEN [bb |-> Append(st.bb, StAssign(fresh, e)), vfac |-> st.vfac + 1,
                actuals |-> Append(st.actuals,
                                   [name |-> fresh, ty |-> "INT_TYPE"])]
          ELSE [bb |-> Append(st.bb, StHavoc(fresh)), vfac |-> st.vfac + 1,
                actuals |-> Append(st.actuals,
                                   [name |-> fresh, ty |-> "UNK_TYPE"])]
  ELSE [st EXCEPT !.actuals = Append(st.actuals,
                     [name |-> symVar(v), ty |-> getType(v.ty)])]

\* The loop over the call's arguments: the scalar actual parameters.
RECURSIVE ScalarActuals(_, _, _, _)
ScalarActuals(ctx, args, i, st) ==
  IF i > Len(args) THEN st
  ELSE ScalarActuals(ctx, args, i + 1,
         IF ~isTracked(ctx, args[i]) THEN st
         ELSE IF ctx.NoPtrArith /\ ~isIntegerTy(args[i].ty) THEN st
         ELSE normalizeParam(ctx, st, args[i]))

\* The loop over the ref arrays of the call: a_in := a; havoc a.
RECURSIVE RefSnapshots(_, _, _)
RefSnapshots(refs, i, st) ==
  IF i > Len(refs) THEN st
  ELSE LET a_in == FreshName(st.vfac + 1)
       IN RefSnapshots(refs, i + 1,
            [bb |-> st.bb \o <<StAssign(a_in, ExpVar(symVarArr(refs[i]))),
                               StHavoc(symVarArr(refs[i]))>>,
             vfac |-> st.vfac + 1,
             actuals |-> Append(st.actuals, [name |-> a_in, ty |-> "ARR_TYPE"])])

ArrayParams(as) == [i \in Idx(as) |-> [name |-> symVarArr(as[i]), ty |-> "ARR_TYPE"]]

\* A variant that leaves the last array alone.
HavocArraysButLast(as) == [i \in 1 .. Len(as) - 1 |-> StHavoc(symVarArr(as[i]))]

HavocArrays(as) == [i \in Idx(as) |-> StHavoc(symVarArr(as[i]))]

NoReturn == [name |-> [n |-> "none", id |-> 0], ty |-> "UNK_TYPE"]

\* The last part of visitCallInst: a call to an ordinary function.
\* S = [bb, vfac, ir].
VisitOrdinaryCall(ctx, mem, fns, S, id) ==
  LET I == S.ir.insts[id]
      retv == InstV(I.ty, id)
      t == mem.cs[id]
  IN IF ~ctx.interproc \/ fns[I.callee].isVarArg
     THEN [S EXCEPT !.bb =
             S.bb
             \o (IF isTracked(ctx, retv) /\ I.ty # "void" /\ ctx.IncludeHavoc
                 THEN <<StHavoc(symVar(retv))>> ELSE <<>>)
             \o (IF ctx.level = "ARRAYS" THEN HavocArrays(t.mods) ELSE <<>>)]
     ELSE
       LET s1 == ScalarActuals(ctx, I.ops, 1,
                               [bb |-> S.bb, vfac |-> S.vfac, actuals |-> <<>>])
           s2 == IF ctx.level = "ARRAYS"
                 THEN LET r == RefSnapshots(t.refs, 1, s1)
                      IN [r EXCEPT !.actuals =
                            r.actuals \o ArrayParams(t.refs) \o ArrayParams(t.news)]
                 ELSE s1
           ret == IF getType(I.ty) # "UNK_TYPE" /\ isTracked(ctx, retv)
                     /\ (~ctx.NoPtrArith \/ isIntegerTy(I.ty))
                  THEN [name |-> symVar(retv), ty |-> getType(I.ty)]
                  ELSE NoReturn
       IN [bb |-> Append(s2.bb, StCallsite(ret, symVarFn(I.callee), s2.actuals)),
           vfac |-> s2.vfac, ir |-> S.ir]

\* Strip a zext from the argument of verifier.assume.
StripZExt(irx, v) ==
  IF v.k = "inst" /\ irx.insts[v.id].op = "zext" THEN irx.insts[v.id].ops[1] ELSE v

VisitAssume(ctx, S, cond, neg) ==
  IF cond.k = "inst"
  THEN LET r == CondVisit(ctx, [bb |-> S.bb, ir |-> S.ir], cond.id, neg)
       IN [bb |-> r.bb, vfac |-> S.vfac, ir |-> r.ir]
  ELSE S

\* SymExecVisitor::visitCallInst.  S = [bb, vfac, ir].
VisitCallInst(ctx, mem, fns, S, id) ==
  LET I == S.ir.insts[id]
      retv == InstV(I.ty, id)
      name == fns[I.callee].name
  IN IF I.callee = 0
     THEN [S EXCEPT !.bb =
             S.bb \o (IF isTracked(ctx, retv) /\ I.ty # "void" /\ ctx.IncludeHavoc
                      THEN <<StHavoc(symVar(retv))>> ELSE <<>>)]
     ELSE IF StartsWith(name, "shadow.mem") THEN S
     ELSE IF name = "seahorn.fn.enter" THEN S
     ELSE IF /\ fns[I.callee].isDeclaration
             /\ ctx.fname = "main"
             /\ name \in {"calloc", "malloc", "valloc", "palloc"}
     THEN IF getArrayId(mem, retv) < 0 THEN S
          ELSE [S EXCEPT !.bb =
                  Append(S.bb, StAssumeArray(symVarArr(getArrayId(mem, retv)), 0))]
     ELSE IF fns[I.callee].isIntrinsic
     THEN IF StartsWith(name, "llvm.memset")
          THEN LET a == getArrayId(mem, I.ops[1])
                   op0 == lookup(ctx, I.ops[2])
               IN IF a < 0 THEN S
                  ELSE IF op0 # None /\ is_constant(op0)
                  THEN [S EXCEPT !.bb = S.bb \o <<StHavoc(symVarArr(a)),
                                                  StAssumeArray(symVarArr(a), op0.c)>>]
                  ELSE S
          ELSE IF StartsWith(name, "llvm.memcpy")
          THEN LET d == getArrayId(mem, I.ops[1])
                   r == getArrayId(mem, I.ops[2])
               IN IF d < 0 \/ r < 0 THEN S
                  ELSE [S EXCEPT !.bb = S.bb \o <<StHavoc(symVarArr(d)),
                                                  StAssign(symVarArr(d),
                                                           ExpVar(symVarArr(r)))>>]
          ELSE S
     ELSE IF name = "verifier.assume"
     THEN VisitAssume(ctx, S, StripZExt(S.ir, I.ops[1]), FALSE)
     ELSE IF name = "verifier.assume.not"
     THEN VisitAssume(ctx, S, StripZExt(S.ir, I.ops[1]), TRUE)
     ELSE VisitOrdinaryCall(ctx, mem, fns, S, id)

(***************************************************************************)
(* SymExecVisitor: the other instructions.                                 *)
(***************************************************************************)
Select(t, c, a, b) == [op |-> "select", ty |-> t, pred |-> "", ops |-> <<c, a, b>>]

StBinOp(o, x, e1, e2) == [op |-> o, lhs |-> x, l |-> e1, r |-> e2]

\* The uses of instruction id: operand slots of instructions, and the
\* operand of a terminator.
Uses(irx, id) ==
  {[user |-> "inst", at |-> u[1]] :
     u \in {w \in UNION {{<<i, j>> : j \in Idx(irx.insts[i].ops)} :
                          i \in DOMAIN irx.insts} :
              IsRef(irx.insts[w[1]].ops[w[2]], id)}}
  \cup {[user |-> "term", at |-> b] :
          b \in {c \in Idx(irx.blocks) :
                   /\ irx.blocks[c].term.op \in {"cbr", "ret", "switch"}
                   /\ IsRef(irx.blocks[c].term.cond, id)}}

\* AllUsesAreNonTrackMem: no use is an integer store, an integer load or
\* anything other than a store, a load or a call.
AllUsesAreNonTrackMem(irx, id) ==
  \A u \in Uses(irx, id) :
    /\ u.user = "inst"
    /\ LET U == irx.insts[u.at]
       IN CASE U.op = "store" -> ~isIntegerTy(U.ops[1].ty)
            [] U.op = "load" -> ~isIntegerTy(U.ty)
            [] U.op = "call" -> TRUE
            [] OTHER -> FALSE

\* The crab primitive of an arithmetic opcode.
PrimOf(o) == CASE o = "sdiv" -> "div" [] o = "srem" -> "rem" [] OTHER -> o

CrabBinOps == {"add", "sub", "mul", "div", "udiv", "rem", "urem", "and", "or", "xor"}

\* unsigned factor = 1; for (i < (unsigned) shift) factor *= 2: 2^k in 32
\* bits, and 0 once the loop has run 32 times or more (a negative shift
\* read as unsigned).
RECURSIVE Pow2(_)
Pow2(k) == IF k = 0 THEN 1 ELSE 2 * Pow2(k - 1)

ShiftFactor(k) == IF k < 0 \/ k >= 32 THEN 0 ELSE Pow2(k)

\* The statements of a primitive whose left operand must not be a constant:
\* lhs := const; prim lhs, lhs, op2.
ViaAssign(prim, lhs, op1, op2) ==
  IF is_constant(op1)
  THEN <<StAssign(lhs, ExpCst(op1.c)), StBinOp(prim, lhs, ExpVar(lhs), op2)>>
  ELSE <<StBinOp(prim, lhs, op1, op2)>>

\* A variant of doArithmetic that hands every primitive its operands as
\* they are.
doArithmeticDirect(ctx, S, id) ==
  LET I == S.ir.insts[id]
      lhs == symVar(InstV(I.ty, id))
      op1 == lookup(ctx, I.ops[1])
      op2 == lookup(ctx, I.ops[2])
      hv == IF ctx.IncludeHavoc THEN <<StHavoc(lhs)>> ELSE <<>>
  IN IF op1 = None \/ op2 = None THEN S
     ELSE [S EXCEPT !.bb = S.bb \o
       CASE I.op \in {"add", "mul", "sub", "sdiv", "srem"} ->
              <<StBinOp(PrimOf(I.op), lhs, op1, op2)>>
         [] I.op \in {"udiv", "urem"} ->
              IF is_constant(op1) /\ is_constant(op2) THEN hv
              ELSE <<StBinOp(I.op, lhs, op1, op2)>>
         [] I.op = "shl" ->
              IF is_constant(op2)
              THEN <<StBinOp("mul", lhs, op1, ExpCst(ShiftFactor(op2.c)))>> ELSE hv
         [] I.op = "ashr" ->
              IF is_constant(op2)
              THEN <<StBinOp("div", lhs, op1, ExpCst(ShiftFactor(op2.c)))>> ELSE hv
         [] OTHER -> hv]

\* SymExecVisitor::doArithmetic.  S = [bb, vfac, ir].
doArithmetic(ctx, S, id) ==
  LET I == S.ir.insts[id]
      lhs == symVar(InstV(I.ty, id))
      op1 == lookup(ctx, I.ops[1])
      op2 == lookup(ctx, I.ops[2])
      hv == IF ctx.IncludeHavoc THEN <<StHavoc(lhs)>> ELSE <<>>
  IN IF op1 = None \/ op2 = None THEN S
     ELSE [S EXCEPT !.bb = S.bb \o
       CASE I.op \in {"add", "mul"} -> <<StBinOp(I.op, lhs, op1, op2)>>
         [] I.op \in {"sub", "sdiv", "srem"} ->
              ViaAssign(PrimOf(I.op), lhs, op1, op2)
         [] I.op \in {"udiv", "urem"} ->
              IF is_constant(op1) /\ is_constant(op2) THEN hv
              ELSE ViaAssign(I.op, lhs, op1, op2)
         [] I.op = "shl" ->
              IF is_constant(op2)
              THEN <<StBinOp("mul", lhs, op1, ExpCst(ShiftFactor(op2.c)))>> ELSE hv
         [] I.op = "ashr" ->
              IF is_constant(op2)
              THEN <<StBinOp("div", lhs, op1, ExpCst(ShiftFactor(op2.c)))>> ELSE hv
         [] OTHER -> hv]

\* A variant of doBitwise that havocs the destination when an operand does
\* not look up.
doBitwiseHavocOnFail(ctx, S, id) ==
  LET I == S.ir.insts[id]
      lhs == symVar(InstV(I.ty, id))
      op1 == lookup(ctx, I.ops[1])
      op2 == lookup(ctx, I.ops[2])
  IN IF (op1 = None \/ op2 = None) /\ ~ctx.IncludeHavoc THEN S
     ELSE IF op1 = None \/ op2 = None
     THEN [S EXCEPT !.bb = Append(S.bb, StHavoc(lhs))]
     ELSE IF I.op \in {"and", "or", "xor"}
     THEN [S EXCEPT !.bb = Append(S.bb, StBinOp(I.op, lhs, op1, op2))]
     ELSE IF ctx.IncludeHavoc
     THEN [S EXCEPT !.bb = Append(S.bb, StHavoc(lhs))]
     ELSE S

\* SymExecVisitor::doBitwise.
doBitwise(ctx, S, id) ==
  LET I == S.ir.insts[id]
      lhs == symVar(InstV(I.ty, id))
      op1 == lookup(ctx, I.ops[1])
      op2 == lookup(ctx, I.ops[2])
  IN IF op1 = None \/ op2 = None THEN S
     ELSE IF I.op \in {"and", "or", "xor"}
     THEN [S EXCEPT !.bb = Append(S.bb, StBinOp(I.op, lhs, op1, op2))]
     ELSE IF ctx.IncludeHavoc
     THEN [S EXCEPT !.bb = Append(S.bb, StHavoc(lhs))]
     ELSE S

\* SymExecVisitor::visitBinaryOperator.  S = [bb, vfac, ir].
VisitBinaryOperator(ctx, S, id) ==
  LET I == S.ir.insts[id]
      lhs == symVar(InstV(I.ty, id))
  IN IF ~isTracked(ctx, InstV(I.ty, id)) THEN S
     ELSE IF I.op \in {"add", "sub", "mul", "sdiv", "udiv", "srem", "urem",
                       "shl", "ashr"}
     THEN doArithmetic(ctx, S, id)
     ELSE IF I.op \in {"and", "or", "xor"} THEN doBitwise(ctx, S, id)
     ELSE IF ctx.IncludeHavoc THEN [S EXCEPT !.bb = Append(S.bb, StHavoc(lhs))]
     ELSE S

\* SymExecVisitor::doCast.
doCast(ctx, S, id) ==
  LET I == S.ir.insts[id]
      dst == symVar(InstV(I.ty, id))
      src == lookup(ctx, I.ops[1])
  IN IF ~isTracked(ctx, InstV(I.ty, id)) THEN S
     ELSE IF ctx.NoPtrArith /\ ~isIntegerTy(I.ty) THEN S
     ELSE IF AllUsesAreNonTrackMem(S.ir, id) THEN S
     ELSE IF src # None THEN [S EXCEPT !.bb = Append(S.bb, StAssign(dst, src))]
     ELSE IF I.ops[1].ty = "i1"
     THEN [S EXCEPT !.bb = S.bb \o <<StAssume(CstGe(ExpVar(dst), ExpCst(0), 0)),
                                      StAssume(CstLe(ExpVar(dst), ExpCst(1), 0))>>]
     ELSE IF ctx.IncludeHavoc THEN [S EXCEPT !.bb = Append(S.bb, StHavoc(dst))]
     ELSE S

BitCast(t, a) == [op |-> "bitcast", ty |-> t, pred |-> "", ops |-> <<a>>]

\* SymExecVisitor::visitZExtInst: skipped when every user is a gep.
VisitZExtInst(ctx, S, id) ==
  IF \A u \in Uses(S.ir, id) : u.user = "inst" /\ S.ir.insts[u.at].op = "gep"
  THEN S
  ELSE doCast(ctx, S, id)

\* A variant of visitSelectInst that translates values of any type.
VisitSelectInstAnyType(ctx, S, id) ==
  LET I == S.ir.insts[id]
      cond == I.ops[1]
      op0 == lookup(ctx, I.ops[2])
      op1 == lookup(ctx, I.ops[3])
      lhs == symVar(InstV(I.ty, id))
  IN IF ~isTracked(ctx, InstV(I.ty, id)) THEN S
     ELSE IF op0 = None \/ op1 = None THEN S
     ELSE IF cond.k = "const" /\ cond.id = 1
     THEN [S EXCEPT !.bb = Append(S.bb, StAssign(lhs, op0))]
     ELSE IF cond.k = "const" /\ cond.id = 0
     THEN [S EXCEPT !.bb = Append(S.bb, StAssign(lhs, op1))]
     ELSE IF isCmpInst(S.ir, cond)
     THEN LET g == gen_assertion(ctx, S.ir, cond.id, FALSE)
          IN IF Len(g.res) = 1
             THEN [S EXCEPT !.bb = Append(S.bb, StSelectCst(lhs, g.res[1], op0, op1)),
                            !.ir = g.ir]
             ELSE [S EXCEPT !.bb = Append(S.bb, StSelectVar(lhs, symVar(cond), op0, op1)),
                            !.ir = g.ir]
     ELSE [S EXCEPT !.bb = Append(S.bb, StSelectVar(lhs, symVar(cond), op0, op1))]

\* SymExecVisitor::visitSelectInst.
VisitSelectInst(ctx, S, id) ==
  LET I == S.ir.insts[id]
      cond == I.ops[1]
      op0 == lookup(ctx, I.ops[2])
      op1 == lookup(ctx, I.ops[3])
      lhs == symVar(InstV(I.ty, id))
  IN IF ~isTracked(ctx, InstV(I.ty, id)) THEN S
     ELSE IF ctx.NoPtrArith
             /\ (~isIntegerTy(I.ops[2].ty) \/ ~isIntegerTy(I.ops[3].ty))
     THEN S
     ELSE IF op0 = None \/ op1 = None THEN S
     ELSE IF cond.k = "const" /\ cond.id = 1
     THEN [S EXCEPT !.bb = Append(S.bb, StAssign(lhs, op0))]
     ELSE IF cond.k = "const" /\ cond.id = 0
     THEN [S EXCEPT !.bb = Append(S.bb, StAssign(lhs, op1))]
     ELSE IF isCmpInst(S.ir, cond)
     THEN LET g == gen_assertion(ctx, S.ir, cond.id, FALSE)
          IN IF Len(g.res) = 1
             THEN [S EXCEPT !.bb = Append(S.bb, StSelectCst(lhs, g.res[1], op0, op1)),
                            !.ir = g.ir]
             ELSE [S EXCEPT !.bb = Append(S.bb, StSelectVar(lhs, symVar(cond), op0, op1)),
                            !.ir = g.ir]
     ELSE [S EXCEPT !.bb = Append(S.bb, StSelectVar(lhs, symVar(cond), op0, op1))]

\* SymExecVisitor::visitReturnInst; a terminator that is no return and no
\* branch falls to visitInstruction, which does nothing for a void value.
VisitTerminator(ctx, S, term) ==
  IF term.op # "ret" THEN S
  ELSE IF ~ctx.interproc THEN S
  ELSE IF ctx.fname = "main" THEN S
  ELSE IF term.cond.ty = "void" THEN S
  ELSE IF ~isTracked(ctx, term.cond) THEN S
  ELSE IF ctx.NoPtrArith /\ ~isIntegerTy(term.cond.ty) THEN S
  ELSE [S EXCEPT !.bb = Append(S.bb, StRet(symVar(term.cond), getType(term.cond.ty)))]

Load(t, p) == [op |-> "load", ty |-> t, pred |-> "", ops |-> <<p>>]
Store(v, p) == [op |-> "store", ty |-> "void", pred |-> "", ops |-> <<v, p>>]

StArrayLoad(x, a, idx, sz) == [op |-> "array_load", lhs |-> x, arr |-> a, idx |-> idx, sz |-> sz]
StArrayStore(a, idx, v, sz) ==
  [op |-> "array_store", arr |-> a, idx |-> idx, val |-> v, sz |-> sz, is_singleton |-> FALSE]

\* DataLayout::getTypeAllocSize of the integer types of the model.
getTypeAllocSize(t) == IF t = "i1" THEN 1 ELSE 4

\* MemAnalysis::getSingleton: the scalar an array stands for, or None.
getSingleton(mem, a) ==
  IF "single" \in DOMAIN mem /\ a \in DOMAIN mem.single THEN mem.single[a] ELSE None

\* SymExecVisitor::visitLoadInst.  The pointer is operand 1.
VisitLoadInst(ctx, mem, S, id) ==
  LET I == S.ir.insts[id]
      lhs == symVar(InstV(I.ty, id))
      arr_idx == getArrayId(mem, I.ops[1])
      idx == lookup(ctx, I.ops[1])
      s == getSingleton(mem, arr_idx)
  IN IF isIntegerTy(I.ty) /\ ctx.level = "ARRAYS" /\ ~(arr_idx < 0) /\ idx # None
     THEN IF s # None
          THEN [S EXCEPT !.bb = Append(S.bb, StAssign(lhs, ExpVar(symVar(s))))]
          ELSE [S EXCEPT !.bb = Append(S.bb, StArrayLoad(lhs, symVarArr(arr_idx), idx,
                                                        getTypeAllocSize(I.ty)))]
     ELSE IF isTracked(ctx, InstV(I.ty, id)) /\ ctx.IncludeHavoc
     THEN [S EXCEPT !.bb = Append(S.bb, StHavoc(lhs))]
     ELSE S

\* SymExecVisitor::visitStoreInst.  The value is operand 1 and the pointer
\* operand 2 (getOperand (0) and getOperand (1)).
VisitStoreInst(ctx, mem, S, id) ==
  LET I == S.ir.insts[id]
      ty == I.ops[1].ty
      arr_idx == getArrayId(mem, I.ops[2])
      idx == lookup(ctx, I.ops[2])
      val == lookup(ctx, I.ops[1])
      s == getSingleton(mem, arr_idx)
  IN IF ~(isIntegerTy(ty) /\ ctx.level = "ARRAYS") THEN S
     ELSE IF arr_idx < 0 THEN S
     ELSE IF idx = None THEN S
     ELSE IF val = None THEN S
     ELSE IF s # None
     THEN [S EXCEPT !.bb = Append(S.bb, StAssign(symVar(s), val))]
     ELSE [S EXCEPT !.bb = Append(S.bb, StArrayStore(symVarArr(arr_idx), idx, val,
                                                    getTypeAllocSize(ty)))]

\* InstVisitor dispatch of SymExecVisitor.
VisitInst(ctx, mem, fns, S, id) ==
  LET I == S.ir.insts[id]
  IN CASE I.op \in {"phi", "icmp", "fcmp"} -> S
       [] I.op \in BinaryOps -> VisitBinaryOperator(ctx, S, id)
       [] I.op = "zext" -> VisitZExtInst(ctx, S, id)
       [] I.op = "select" -> VisitSelectInst(ctx, S, id)
       [] I.op = "call" -> VisitCallInst(ctx, mem, fns, S, id)
       [] I.op = "bitcast" -> doCast(ctx, S, id)
       [] I.op = "load" -> VisitLoadInst(ctx, mem, S, id)
       [] I.op = "store" -> VisitStoreInst(ctx, mem, S, id)

\* The instructions ids[i], ids[i + 1], ... in order, each on the state the
\* one before it left.
RECURSIVE VisitInsts(_, _, _, _, _, _)
VisitInsts(ctx, mem, fns, S, ids, i) ==
  IF i > Len(ids) THEN S
  ELSE CHOOSE R \in {VisitInsts(ctx, mem, fns, T, ids, i + 1) :
                       T \in {VisitInst(ctx, mem, fns, S, ids[i])}} : TRUE

\* v.visit (B): every instruction of block b in order, the terminator last.
VisitBlockInsts(ctx, mem, fns, S, b) ==
  LET blk == S.ir.blocks[b]
  IN CHOOSE R \in {VisitTerminator(ctx, T, blk.term) :
                     T \in {VisitInsts(ctx, mem, fns, S, blk.phis \o blk.body, 1)}} :
       TRUE

(***************************************************************************)
(* CfgBuilder.                                                             *)
(***************************************************************************)
\* crab: src >> dst, src -= dst, and a statement put at the front of a block.
AddEdge(g, src, dst) == [g EXCEPT !.edges = g.edges \cup {<<src, dst>>}]
RemoveEdge(g, src, dst) == [g EXCEPT !.edges = g.edges \ {<<src, dst>>}]
InsertFront(stmts, st) == <<st>> \o stmts

\* A variant that puts the new block beside a direct edge.
add_block_beside(g, src, dst, bb_id) ==
  AddEdge(AddEdge(AddEdge(CfgInsert(g, bb_id), src, bb_id), bb_id, dst), src, dst)

\* CfgBuilder::add_block_in_between
add_block_in_between(g, src, dst, bb_id) ==
  AddEdge(AddEdge(RemoveEdge(CfgInsert(g, bb_id), src, dst), src, bb_id),
          bb_id, dst)

\* A variant that marks the edge a constant condition selects.
BranchConditionMarksSelected(ctx, irx, c, succs, dst) ==
  IF c.k = "const"
  THEN [bb |-> IF (c.id = 1 /\ succs[2] # dst) \/ (c.id = 0 /\ succs[1] # dst)
               THEN <<StUnreachable>> ELSE <<>>,
        ir |-> irx]
  ELSE IF c.k = "inst"
  THEN CondVisit(ctx, [bb |-> <<>>, ir |-> irx], c.id, succs[2] = dst)
  ELSE [bb |-> <<StAssume(CstEq(ExpVar(symVar(c)),
                                ExpCst(IF succs[2] = dst THEN 0 ELSE 1)))>>,
        ir |-> irx]

\* The statements execBr puts in the new block for the branch condition c of
\* a conditional branch with successors succs, on the edge to dst.
\* Returns the block and the IR.
BranchCondition(ctx, irx, c, succs, dst) ==
  IF c.k = "const"
  THEN [bb |-> IF (c.id = 1 /\ succs[1] # dst) \/ (c.id = 0 /\ succs[2] # dst)
               THEN <<StUnreachable>> ELSE <<>>,
        ir |-> irx]
  ELSE IF c.k = "inst"
  THEN CondVisit(ctx, [bb |-> <<>>, ir |-> irx], c.id, succs[2] = dst)
  ELSE [bb |-> <<StAssume(CstEq(ExpVar(symVar(c)),
                                ExpCst(IF succs[2] = dst THEN 0 ELSE 1)))>>,
        ir |-> irx]

\* CfgBuilder::execBr (src, dst): st = [cfg, bld, ir]; returns the new state,
\* the block inserted in between, if any, and the m_is_negated of the
\* condition visitor, if one was made.
execBr(ctx, st, src, dst) ==
  LET term == st.ir.blocks[src].term
  IN IF term.op = "cbr"
     THEN LET bb_id == ExtraLabel(st.bld.m_id + 1)
              g == add_block_in_between(st.cfg, IrLabel(src), IrLabel(dst), bb_id)
              r == BranchCondition(ctx, st.ir, term.cond, term.succs, dst)
          IN [cfg |-> [g EXCEPT !.stmts[bb_id] = r.bb],
              bld |-> [st.bld EXCEPT !.m_id = st.bld.m_id + 1,
                                     !.m_extra_blks = Append(st.bld.m_extra_blks, bb_id)],
              ir |-> r.ir, mid |-> bb_id,
              is_negated |-> IF term.cond.k = "inst"
                             THEN <<term.succs[2] = dst>> ELSE <<>>]
     ELSE IF term.op = "br"
     THEN [cfg |-> AddEdge(st.cfg, IrLabel(src), IrLabel(dst)), bld |-> st.bld,
           ir |-> st.ir, mid |-> NoLabel, is_negated |-> <<>>]
     ELSE [cfg |-> st.cfg, bld |-> st.bld, ir |-> st.ir, mid |-> NoLabel,
           is_negated |-> <<>>]

\* build_cfg, "unify multiple return blocks".
\* The variant that unifies only when there are more than two returns.
UnifyReturnsOverTwo(g, b) ==
  IF Len(b.rets) = 1 \/ Len(b.rets) = 2
  THEN [cfg |-> [g EXCEPT !.exit = b.rets[1]], bld |-> b]
  ELSE [cfg |-> g, bld |-> b]

UnifyReturnBlocks(g, b) ==
  IF Len(b.rets) = 1 THEN [cfg |-> [g EXCEPT !.exit = b.rets[1]], bld |-> b]
  ELSE IF Len(b.rets) > 1
  THEN LET unified_ret_id == ExtraLabel(b.m_id + 1)
           g1 == CfgInsert(g, unified_ret_id)
       IN [cfg |-> [g1 EXCEPT !.edges = g1.edges \cup
                                 {<<b.rets[i], unified_ret_id>> : i \in Idx(b.rets)},
                              !.exit = unified_ret_id],
           bld |-> [b EXCEPT !.m_id = b.m_id + 1,
                             !.m_extra_blks = Append(b.m_extra_blks, unified_ret_id)]]
  ELSE [cfg |-> g, bld |-> b]

\* doInitializer for one global variable gv with array a, at the front of bb.
doInitializer(gv, bb, a) ==
  CASE gv.init = "zero" -> InsertFront(bb, StAssumeArray(a, 0))
    [] gv.init = "data" -> InsertFront(bb, [op |-> "array_init", lhs |-> a,
                                            vals |-> gv.vals])
    [] OTHER -> bb

GlobalV(i) == [k |-> "global", ty |-> "ptr", id |-> i]

\* build_cfg, "allocate arrays with initial values": the initialized
\* globals of main from the i-th on.
RECURSIVE InitGlobals(_, _, _, _)
InitGlobals(mem, globals, i, bb) ==
  IF i > Len(globals) THEN bb
  ELSE InitGlobals(mem, globals, i + 1,
         IF globals[i].init = "none" \/ getArrayId(mem, GlobalV(i)) < 0 THEN bb
         ELSE doInitializer(globals[i], bb, symVarArr(getArrayId(mem, GlobalV(i)))))

RECURSIVE InitNews(_, _, _)
InitNews(news, i, bb) ==
  IF i > Len(news) THEN bb
  ELSE InitNews(news, i + 1, InsertFront(bb, StAssumeArray(symVarArr(news[i]), 0)))

ArraysPrelude(ctx, mem, globals, news, bb) ==
  IF ctx.level # "ARRAYS" THEN bb
  ELSE InitNews(news, 1,
                IF ctx.fname = "main" THEN InitGlobals(mem, globals, 1, bb) ELSE bb)

(***************************************************************************)
(* The function declaration build_cfg makes in inter-procedural mode.      *)
(***************************************************************************)
\* The scalar formal parameters, from the i-th argument on.
RECURSIVE ScalarFormals(_, _, _)
ScalarFormals(ctx, formals, i) ==
  IF i > Len(formals) THEN <<>>
  ELSE (IF ~isTracked(ctx, formals[i]) THEN <<>>
        ELSE IF ctx.NoPtrArith /\ ~isIntegerTy(formals[i].ty) THEN <<>>
        ELSE <<[name |-> symVar(formals[i]), ty |-> getType(formals[i].ty)]>>)
       \o ScalarFormals(ctx, formals, i + 1)

\* The loop over the ref arrays of the function: a := a_in at the front of
\* the entry block.  st = [entry, vfac, params].
RECURSIVE RefFormals(_, _, _)
RefFormals(refs, i, st) ==
  IF i > Len(refs) THEN st
  ELSE LET a_in == FreshName(st.vfac + 1)
       IN RefFormals(refs, i + 1,
            [entry |-> <<StAssign(symVarArr(refs[i]), ExpVar(a_in))>> \o st.entry,
             vfac |-> st.vfac + 1,
             params |-> Append(st.params, [name |-> a_in, ty |-> "ARR_TYPE"])])

\* build_cfg, "add function declaration": f is the function being
\* translated, formals its arguments, t its ref/mod/new arrays, entry the
\* statements of its entry block.  Returns the declaration, the entry block
\* and the factory counter.
FunctionDecl(ctx, fns, f, formals, t, entry, nfresh) ==
  LET s0 == [entry |-> entry, vfac |-> nfresh,
             params |-> ScalarFormals(ctx, formals, 1)]
      s1 == IF ctx.level = "ARRAYS" /\ fns[f].name # "main"
            THEN LET r == RefFormals(t.refs, 1, s0)
                 IN [r EXCEPT !.params =
                       r.params \o ArrayParams(t.refs) \o ArrayParams(t.news)]
            ELSE s0
      retTy == IF ~ctx.NoPtrArith \/ isIntegerTy(fns[f].ret)
               THEN getType(fns[f].ret) ELSE "UNK_TYPE"
  IN [decl |-> [ret |-> retTy, fn |-> symVarFn(f), params |-> s1.params],
      entry |-> s1.entry, vfac |-> s1.vfac]

(***************************************************************************)
(* What the constraint table of condition lowering prescribes, written     *)
(* from the table: the compare as handed in, its predicate read as the     *)
(* "less" form with the operands in the matching order.                    *)
(***************************************************************************)
IsGreaterPred(p) == p \in {"UGT", "SGT", "UGE", "SGE"}
IsUnsignedPred(p) == p \in {"ULT", "ULE", "UGT", "UGE"}

TableA(ctx, I) == lookup(ctx, IF IsGreaterPred(I.pred) THEN I.ops[2] ELSE I.ops[1])
TableB(ctx, I) == lookup(ctx, IF IsGreaterPred(I.pred) THEN I.ops[1] ELSE I.ops[2])

SpecTable(p, a, b, neg) ==
  LET lbs == {CstGe(e, ExpCst(0), 0) : e \in {o \in {a, b} : isVar(o)}}
      lt == {IF neg THEN CstGe(a, b, 0) ELSE CstLe(a, b, 0 - 1)}
      le == {IF neg THEN CstGe(a, b, 1) ELSE CstLe(a, b, 0)}
  IN CASE p = "EQ" -> {IF neg THEN CstNe(a, b) ELSE CstEq(a, b)}
       [] p = "NE" -> {IF neg THEN CstEq(a, b) ELSE CstNe(a, b)}
       [] p \in {"SLT", "SGT"} -> lt
       [] p \in {"SLE", "SGE"} -> le
       [] p \in {"ULT", "UGT"} -> lt \cup lbs
       [] p \in {"ULE", "UGE"} -> le \cup lbs

LooksUp(ctx, I) == TableA(ctx, I) # None /\ TableB(ctx, I) # None

ExpectedCsts(ctx, I, neg) ==
  IF LooksUp(ctx, I)
  THEN SpecTable(I.pred, TableA(ctx, I), TableB(ctx, I), neg)
  ELSE {}

GenCalls == {i \in Idx(last) : last[i].op = "gen_assertion"}
VisitCalls == {i \in Idx(last) : last[i].op = "visit"}
GivenInst(i) == input.ir.insts[last[i].id]

\* C6: gen_assertion returns exactly the constraints of the table: EQ, NE,
\* SLT, SLE in both polarities, the unsigned predicates with the lower
\* bounds of their variable operands added, and nothing when an operand
\* fails lookup.
C6_GenAssertionTable ==
  input.kind = "cond" =>
    \A i \in GenCalls :
      /\ SeqRange(last[i].ret)
           = ExpectedCsts(input.ctx, GivenInst(i), last[i].neg)
      /\ ~LooksUp(input.ctx, GivenInst(i)) => last[i].ret = <<>>

C6_Witness ==
  /\ input.kind = "cond"
  /\ \E i \in GenCalls :
       /\ GivenInst(i).pred = "UGE"
       /\ GivenInst(i).ops = <<X, C0>>
       /\ last[i].neg
       /\ Len(last[i].ret) = 2

\* Valuations of the variable operands of a compare.
OperandNames(I) == {symVar(o) : o \in {v \in SeqRange(I.ops) : v.k # "const"}}
EnvsOf(names) == [names -> Vals]

\* In the modelled integer domain the operands of an unsigned compare are
\* non-negative.
UnsignedNonNeg(ctx, I, env) ==
  IsUnsignedPred(I.pred) =>
    \A o \in SeqRange(I.ops) :
      (lookup(ctx, o) # None /\ isVar(lookup(ctx, o))) => env[symVar(o)] >= 0

OppositeCalls ==
  {ij \in GenCalls \X GenCalls :
     /\ last[ij[1]].id = last[ij[2]].id
     /\ ~last[ij[1]].neg /\ last[ij[2]].neg
     /\ LooksUp(input.ctx, GivenInst(ij[1]))}

\* C7 as stated: the constraint sets of the two polarities are each other's
\* negations on every integer valuation.
C7_DualityAllValuations ==
  input.kind = "cond" =>
    \A ij \in OppositeCalls :
      \A env \in EnvsOf(OperandNames(GivenInst(ij[1]))) :
        HoldsAll(last[ij[1]].ret, env) <=> ~HoldsAll(last[ij[2]].ret, env)

\* C7 amended: the two sets are each other's negations on every valuation
\* that gives the variable operands of an unsigned compare non-negative
\* values (every valuation, for EQ, NE and the signed predicates).
C7_DualityNonNegUnsigned ==
  input.kind = "cond" =>
    \A ij \in OppositeCalls :
      \A env \in EnvsOf(OperandNames(GivenInst(ij[1]))) :
        UnsignedNonNeg(input.ctx, GivenInst(ij[1]), env) =>
          (HoldsAll(last[ij[1]].ret, env) <=> ~HoldsAll(last[ij[2]].ret, env))

C7_Witness ==
  /\ input.kind = "cond"
  /\ \E ij \in OppositeCalls :
       /\ GivenInst(ij[1]).pred = "ULT"
       /\ GivenInst(ij[1]).ops = <<X, Y>>
       /\ Len(last[ij[1]].ret) = 3 /\ Len(last[ij[2]].ret) = 3

(***************************************************************************)
(* The meaning of the IR condition itself on a valuation.                  *)
(***************************************************************************)
EvalOperand(v, env) == IF v.k = "const" THEN v.id ELSE env[symVar(v)]

CmpSem(I, env) ==
  LET u == EvalOperand(I.ops[1], env)
      v == EvalOperand(I.ops[2], env)
  IN CASE I.pred = "EQ" -> u = v
       [] I.pred = "NE" -> u # v
       [] I.pred \in {"SLT", "ULT"} -> u < v
       [] I.pred \in {"SLE", "ULE"} -> u <= v
       [] I.pred \in {"SGT", "UGT"} -> u > v
       [] I.pred \in {"SGE", "UGE"} -> u >= v

Emitted(i) == SubSeq(cfg.stmts[CondBlock], last[i].at + 1, last[i].at + last[i].n)

\* Visits of an AND under non-negated polarity or of an OR under negated
\* polarity whose operands are both integer compares that look up.
ShortCircuitVisits ==
  {i \in VisitCalls :
     LET I == GivenInst(i)
     IN /\ (I.op = "and" /\ ~last[i].neg) \/ (I.op = "or" /\ last[i].neg)
        /\ \A o \in SeqRange(I.ops) :
             /\ isCmpInst(input.ir, o)
             /\ LooksUp(input.ctx, input.ir.insts[o.id])}

\* C5: for AND (non-negated) and OR (negated) over two compares the assumes
\* appended are the table's constraints of both compares under the visit's
\* polarity, and their conjunction means cond (AND) resp. not cond (OR).
C5_ShortCircuit ==
  input.kind = "cond" =>
    \A i \in ShortCircuitVisits :
      LET I == GivenInst(i)
          Ca == input.ir.insts[I.ops[1].id]
          Cb == input.ir.insts[I.ops[2].id]
          em == Emitted(i)
          sem(env) == IF I.op = "and"
                      THEN CmpSem(Ca, env) /\ CmpSem(Cb, env)
                      ELSE CmpSem(Ca, env) \/ CmpSem(Cb, env)
      IN /\ SeqRange(em)
              = {StAssume(c) : c \in ExpectedCsts(input.ctx, Ca, last[i].neg)
                                     \cup ExpectedCsts(input.ctx, Cb, last[i].neg)}
         /\ \A env \in EnvsOf(OperandNames(Ca) \cup OperandNames(Cb)) :
              (UnsignedNonNeg(input.ctx, Ca, env)
                 /\ UnsignedNonNeg(input.ctx, Cb, env)) =>
                ((\A k \in Idx(em) : Holds(em[k].cst, env))
                   <=> (IF last[i].neg THEN ~sem(env) ELSE sem(env)))

\* The conjunctive half of C5 alone: AND under non-negated polarity.
C5_AndOnly ==
  input.kind = "cond" =>
    \A i \in {j \in ShortCircuitVisits : GivenInst(j).op = "and"} :
      LET I == GivenInst(i)
          Ca == input.ir.insts[I.ops[1].id]
          Cb == input.ir.insts[I.ops[2].id]
      IN SeqRange(Emitted(i))
           = {StAssume(c) : c \in ExpectedCsts(input.ctx, Ca, FALSE)
                                  \cup ExpectedCsts(input.ctx, Cb, FALSE)}

(***************************************************************************)
(* Boolean operators outside the two short-circuit patterns.               *)
(***************************************************************************)
\* Visits of a binary operator that is not an AND under non-negated
\* polarity or an OR under negated polarity over two integer compares.
OtherCombinationVisits ==
  {i \in VisitCalls :
     LET I == GivenInst(i)
     IN /\ I.op \in BinaryOps
        /\ ~(/\ (I.op = "and" /\ ~last[i].neg) \/ (I.op = "or" /\ last[i].neg)
             /\ \A o \in SeqRange(I.ops) :
                  isIntegerTy(o.ty) /\ isCmpInst(input.ir, o))}

BoolVar(i) == symVar(InstV(GivenInst(i).ty, last[i].id))

\* The boolean has a use in the IR besides the branch that is being lowered.
HasOtherUses(i) == NumUses(input.ir, last[i].id) >= 1

\* sym_var(bool) is set to 1 (non-negated) or 0 (negated).
ConstrainsBool(em, i) ==
  \E k \in Idx(em) :
    \/ em[k] = StAssume(CstEq(ExpVar(BoolVar(i)),
                              ExpCst(IF last[i].neg THEN 0 ELSE 1)))
    \/ em[k] = StAssign(BoolVar(i), ExpCst(IF last[i].neg THEN 0 ELSE 1))

AssumesIn(em) == {k \in Idx(em) : em[k].op = "assume"}

\* C18 as stated: in any other combination no assume derived from the
\* operands is emitted, and a tracked boolean with other uses has its
\* symbolic variable constrained to 1 (non-negated) or 0 (negated).
C18_BoolConstrained ==
  input.kind = "cond" =>
    \A i \in OtherCombinationVisits :
      /\ \A k \in AssumesIn(Emitted(i)) :
           CstNames(Emitted(i)[k].cst) \subseteq {BoolVar(i)}
      /\ (isTracked(input.ctx, InstV(GivenInst(i).ty, last[i].id))
            /\ HasOtherUses(i)) => ConstrainsBool(Emitted(i), i)

\* C18 amended: in any other combination no assume is emitted and the
\* boolean's variable is not constrained; nothing at all is emitted for AND
\* and OR, and for another opcode the one statement is a havoc of the
\* boolean's variable, when the boolean is tracked.
C18_NoDecomposition ==
  input.kind = "cond" =>
    \A i \in OtherCombinationVisits :
      /\ AssumesIn(Emitted(i)) = {}
      /\ ~ConstrainsBool(Emitted(i), i)
      /\ GivenInst(i).op \in {"and", "or"} => Emitted(i) = <<>>
      /\ (GivenInst(i).op \notin {"and", "or"}
            /\ isTracked(input.ctx, InstV(GivenInst(i).ty, last[i].id)))
           => Emitted(i) = <<StHavoc(BoolVar(i))>>

\* An AND of two compares that a zext also uses, visited under negated
\* polarity.
C18_Witness ==
  /\ input.kind = "cond"
  /\ \E i \in OtherCombinationVisits :
       /\ GivenInst(i).op = "and" /\ last[i].neg
       /\ \A o \in SeqRange(GivenInst(i).ops) : isCmpInst(input.ir, o)
       /\ HasOtherUses(i)
       /\ Emitted(i) = <<>>

(***************************************************************************)
(* Compare normalization, seen through gen_assertion: the compare as it    *)
(* was handed in against the compare each call left in the IR.             *)
(***************************************************************************)
\* The value of an operand read as an unsigned number of the modelled width
\* (two's complement over -(ValBound + 1) .. ValBound).
AsUnsigned(v) == IF v < 0 THEN v + 2 * (ValBound + 1) ELSE v

\* The truth value of an integer compare on a valuation of its operands.
ICmpTruth(I, env) ==
  LET u == EvalOperand(I.ops[1], env)
      v == EvalOperand(I.ops[2], env)
  IN CASE I.pred = "EQ" -> u = v
       [] I.pred = "NE" -> u # v
       [] I.pred = "SLT" -> u < v
       [] I.pred = "SLE" -> u <= v
       [] I.pred = "SGT" -> u > v
       [] I.pred = "SGE" -> u >= v
       [] I.pred = "ULT" -> AsUnsigned(u) < AsUnsigned(v)
       [] I.pred = "ULE" -> AsUnsigned(u) <= AsUnsigned(v)
       [] I.pred = "UGT" -> AsUnsigned(u) > AsUnsigned(v)
       [] I.pred = "UGE" -> AsUnsigned(u) >= AsUnsigned(v)

\* C12: a compare with predicate UGT, SGT, UGE or SGE is left with its
\* operands swapped and a predicate among EQ, NE, ULT, SLT, ULE, SLE, and
\* with the truth value it had on every pair of operand values; a compare
\* with another predicate is left as it was; a second normalization leaves
\* what the first one left.
C12_NormalizeCmp ==
  input.kind = "cond" =>
    \A i \in GenCalls :
      LET I == GivenInst(i)
          N == last[i].inst
      IN /\ IsGreaterPred(I.pred) =>
              /\ N.pred \in {"EQ", "NE", "ULT", "SLT", "ULE", "SLE"}
              /\ N.ops = <<I.ops[2], I.ops[1]>>
         /\ ~IsGreaterPred(I.pred) => N = I
         /\ \A env \in EnvsOf(OperandNames(I)) :
              ICmpTruth(N, env) <=> ICmpTruth(I, env)
         /\ \A j \in GenCalls :
              (j > i /\ last[j].id = last[i].id) => last[j].inst = N
         /\ ir.insts[last[i].id] = N

\* An SGT compare of two variables was normalized twice.
C12_Witness ==
  /\ input.kind = "cond"
  /\ Cardinality(GenCalls) = 2
  /\ GivenInst(1).pred = "SGT"
  /\ GivenInst(1).ops = <<X, Y>>
  /\ ir.insts[input.root].pred = "SLT"

(***************************************************************************)
(* Phi lowering on its own: the phis of block 2 are lowered for the edge   *)
(* from block 1 into an empty target block.                                *)
(***************************************************************************)
TRet(v) == [op |-> "ret", cond |-> v, succs |-> <<>>]
TBr(d) == [op |-> "br", cond |-> UndefV("void"), succs |-> <<d>>]
TCbr(c, t, f) == [op |-> "cbr", cond |-> c, succs |-> <<t, f>>]
TSwitch(c, ds) == [op |-> "switch", cond |-> c, succs |-> ds]
TUnreachable == [op |-> "unreachable", cond |-> UndefV("void"), succs |-> <<>>]

Block(phis, body, term) == [phis |-> phis, body |-> body, term |-> term]

PhiIR(tys, incs) ==
  [insts |-> [i \in Idx(tys) |-> Phi(tys[i], <<incs[i]>>, <<1>>)],
   blocks |-> <<Block(<<>>, <<>>, TBr(2)),
                Block([i \in Idx(tys) |-> i], <<>>, TRet(UndefV("void")))>>]

PhiInputs ==
  {[kind |-> "phi", ctx |-> Ctx("ARRAYS", np, FALSE),
    ir |-> PhiIR([i \in Idx(incs) |-> "int"], incs)] :
      np \in BOOLEAN,
      incs \in UNION {[1 .. m -> {InstV("int", j) : j \in 1 .. m}
                                   \cup {X, C1, UndefV("int")}] :
                        m \in 1 .. MaxPhis}}
  \cup
  {[kind |-> "phi", ctx |-> Ctx(lv, np, FALSE),
    ir |-> PhiIR([i \in Idx(incs) |-> "ptr"], incs)] :
      np \in BOOLEAN, lv \in {"NONE", "ARRAYS"},
      incs \in UNION {[1 .. m -> {InstV("ptr", j) : j \in 1 .. m} \cup {P}] :
                        m \in 1 .. 2}}
  \cup
  {[kind |-> "phi", ctx |-> Ctx("ARRAYS", FALSE, FALSE),
    ir |-> PhiIR(<<"flt", "int">>, <<F, v>>)] : v \in {InstV("int", 2), X}}

PhiTarget == IrLabel(1)

InitPhi ==
  /\ input \in PhiInputs
  /\ pc = "phi"
  /\ ir = input.ir
  /\ cfg = CfgInsert(NewCfg(PhiTarget), PhiTarget)
  /\ bld = None
  /\ vfac = 0
  /\ last = <<>>

\* SymExecPhiVisitor v (m_vfac, target, B, m_mem); v.visit (dst)
PhiLower ==
  /\ pc = "phi"
  /\ LET r == PhiVisitBasicBlock(input.ctx, ir, 2, 1, cfg.stmts[PhiTarget], vfac)
     IN /\ cfg' = [cfg EXCEPT !.stmts[PhiTarget] = r.bb]
        /\ vfac' = r.vfac
        /\ last' = Append(last, [op |-> "phi", id |-> 2, neg |-> FALSE,
                                 ret |-> <<>>, at |-> Len(cfg.stmts[PhiTarget]),
                                 n |-> Len(r.bb) - Len(cfg.stmts[PhiTarget])])
  /\ pc' = "phi_done"
  /\ UNCHANGED <<input, ir, bld>>

NextPhi == PhiLower

SpecPhi == InitPhi /\ [][NextPhi]_vars

(***************************************************************************)
(* Running CFG statements on symbolic values: every name starts with its   *)
(* own initial value, an assignment copies a value, a havoc makes a value  *)
(* unrelated to every other.                                               *)
(***************************************************************************)
InitialValue(x) == [sv |-> "init", x |-> x]

StmtNames(stmts) ==
  {stmts[i].lhs : i \in {k \in Idx(stmts) : stmts[k].op \in {"assign", "havoc"}}}
  \cup {stmts[i].rhs.x : i \in {k \in Idx(stmts) :
                                  stmts[k].op = "assign" /\ isVar(stmts[k].rhs)}}

ExecStmt(st, i, env) ==
  CASE st.op = "assign" ->
         [env EXCEPT ![st.lhs] = IF isVar(st.rhs) THEN env[st.rhs.x]
                                 ELSE [sv |-> "cst", c |-> st.rhs.c]]
    [] st.op = "havoc" -> [env EXCEPT ![st.lhs] = [sv |-> "any", at |-> i]]
    [] OTHER -> env

RECURSIVE ExecFrom(_, _, _)
ExecFrom(stmts, i, env) ==
  IF i > Len(stmts) THEN env
  ELSE ExecFrom(stmts, i + 1, ExecStmt(stmts[i], i, env))

Exec(stmts, names) ==
  ExecFrom(stmts, 1, [x \in names \cup StmtNames(stmts) |-> InitialValue(x)])

PhiIds == SeqRange(input.ir.blocks[2].phis)
PhiValue(i) == InstV(input.ir.insts[i].ty, i)
PhiNames == {symVar(PhiValue(i)) : i \in PhiIds}
PhiEmitted == SubSeq(cfg.stmts[PhiTarget], last[1].at + 1, last[1].at + last[1].n)

\* Pairs (p1, p2) of tracked phis of the block with p1's incoming value on
\* the edge being p2.
PhiReads ==
  {pq \in PhiIds \X PhiIds :
     /\ isTracked(input.ctx, PhiValue(pq[1]))
     /\ isTracked(input.ctx, PhiValue(pq[2]))
     /\ getIncomingValueForBlock(input.ir.insts[pq[1]], 1) = PhiValue(pq[2])}

\* A phi that phi lowering passes over: a non-integer phi when pointer
\* arithmetic is disabled.
PhiSkipped(i) == input.ctx.NoPtrArith /\ ~isIntegerTy(input.ir.insts[i].ty)

\* C2 as stated: for all tracked phis p1, p2 with p1 reading p2 on the edge,
\* the statements of the edge leave p1 with p2's value from before them.
C2_ParallelPhiAllTracked ==
  (input.kind = "phi" /\ pc = "phi_done") =>
    \A pq \in PhiReads :
      Exec(PhiEmitted, PhiNames)[symVar(PhiValue(pq[1]))]
        = InitialValue(symVar(PhiValue(pq[2])))

\* C2 amended: the same for the phis that phi lowering does not pass over
\* (integer phis, and every tracked phi when pointer arithmetic is enabled).
C2_ParallelPhi ==
  (input.kind = "phi" /\ pc = "phi_done") =>
    \A pq \in {r \in PhiReads : ~PhiSkipped(r[1])} :
      Exec(PhiEmitted, PhiNames)[symVar(PhiValue(pq[1]))]
        = InitialValue(symVar(PhiValue(pq[2])))

\* A three-cycle p1 <- p2 <- p3 <- p1 has been lowered.
C2_Witness ==
  /\ input.kind = "phi" /\ pc = "phi_done"
  /\ {<<1, 2>>, <<2, 3>>, <<3, 1>>} \subseteq PhiReads
  /\ Len(PhiEmitted) = 6

(***************************************************************************)
(* The order of the statements phi lowering appends for one edge.          *)
(***************************************************************************)
\* The first-pass statements: a fresh name takes the value of a phi.
Snapshots(em) == {k \in Idx(em) : em[k].op = "assign" /\ em[k].lhs.n = "fresh"}

SecondPass(em) == Idx(em) \ Snapshots(em)

\* The position of phi p in its block, and of the phi that statement st
\* defines.
DeclPos(p) == CHOOSE i \in Idx(input.ir.blocks[2].phis) : input.ir.blocks[2].phis[i] = p

DefinedPhi(st) == CHOOSE p \in PhiIds : st.lhs = symVar(PhiValue(p))

\* The phi whose value a snapshot saves, and the positions of the lowered
\* phis that read it on the edge.
SavedPhi(st) == CHOOSE q \in PhiIds : st.rhs = ExpVar(symVar(PhiValue(q)))

ReadersOf(q) ==
  {DeclPos(p) : p \in {r \in PhiIds :
                        /\ ~PhiSkipped(r)
                        /\ getIncomingValueForBlock(input.ir.insts[r], 1) = PhiValue(q)}}

FirstReader(q) == CHOOSE i \in ReadersOf(q) : \A j \in ReadersOf(q) : i <= j

\* C20: every snapshot precedes every second-pass statement; the snapshots
\* are in the declaration order of the phis that read them, one at most for
\* each phi read; the second-pass statements are assignments or havocs in
\* the declaration order of the phis they define.
C20_PhiStatementOrder ==
  (input.kind = "phi" /\ pc = "phi_done") =>
    LET em == PhiEmitted
    IN /\ \A a \in Snapshots(em), b \in SecondPass(em) : a < b
       /\ \A a \in Snapshots(em) :
            /\ \E q \in PhiIds : em[a].rhs = ExpVar(symVar(PhiValue(q)))
            /\ ReadersOf(SavedPhi(em[a])) # {}
       /\ \A a, b \in Snapshots(em) :
            a < b => FirstReader(SavedPhi(em[a])) < FirstReader(SavedPhi(em[b]))
       /\ \A b \in SecondPass(em) :
            /\ em[b].op \in {"assign", "havoc"}
            /\ \E p \in PhiIds : em[b].lhs = symVar(PhiValue(p))
       /\ \A a, b \in SecondPass(em) :
            a < b => DeclPos(DefinedPhi(em[a])) < DeclPos(DefinedPhi(em[b]))

\* Two phis read the third and the third reads the first: two snapshots,
\* then three assignments.
C20_Witness ==
  /\ input.kind = "phi" /\ pc = "phi_done"
  /\ {<<1, 3>>, <<2, 3>>, <<3, 1>>} \subseteq PhiReads
  /\ Cardinality(Snapshots(PhiEmitted)) = 2
  /\ Cardinality(SecondPass(PhiEmitted)) = 3


(***************************************************************************)
(* Call lowering on its own: one call instruction (instruction 1) of the   *)
(* function being translated is visited, then the declaration of its       *)
(* callee (function 1) is built as build_cfg does for that function.       *)
(***************************************************************************)
\* The sequences of distinct array ids the oracle may answer with.
ArraySeqs ==
  {s \in UNION {[1 .. m -> 1 .. MaxArrays] : m \in 0 .. MaxArrays} :
     \A i, j \in DOMAIN s : i # j => s[i] # s[j]}

NoArrays == [refs |-> <<>>, mods |-> <<>>, news |-> <<>>]

RefModNews ==
  {[refs |-> r, mods |-> m, news |-> n] :
     r \in ArraySeqs, m \in {<<>>, <<1>>}, n \in {<<>>, <<MaxArrays + 1>>}}
  \cup {[refs |-> r, mods |-> r, news |-> n] :
          r \in ArraySeqs, n \in {<<>>, <<MaxArrays + 1>>}}

ActualsFor(t) ==
  CASE t = "int" -> {X, C1}
    [] t = "ptr" -> {P, UndefV("ptr")}
    [] OTHER -> {F}

ArgChoices(tys) ==
  {as \in [Idx(tys) -> {X, C1, P, UndefV("ptr"), F}] :
     \A i \in Idx(tys) : as[i] \in ActualsFor(tys[i])}

OrdinaryCallees ==
  {Function("g", as, r, FALSE, FALSE, FALSE) :
     as \in {<<>>, <<"int", "ptr">>, <<"flt", "int">>},
     r \in {"void", "int", "ptr"}}
  \cup {Function("g", <<"int", "ptr">>, "int", TRUE, FALSE, FALSE),
        Function("main", <<"int">>, "int", FALSE, FALSE, FALSE),
        Function("ext", <<"int">>, "int", FALSE, TRUE, FALSE)}

CallIR(call) ==
  [insts |-> <<call, ICmp("SGT", X, Y), ZExt(InstV("i1", 2))>>, blocks |-> <<>>]

Mem(aid, t) == [aid |-> aid, cs |-> <<t>>, fn |-> <<t>>]

\* Calls to the ordinary function f.
CallInputs(f) ==
  {[kind |-> "call", ctx |-> Ctx("ARRAYS", np, ip),
    ir |-> CallIR(Call(f.ret, 1, as)), fns |-> <<f>>,
    mem |-> Mem(<<>>, t)] :
      np \in BOOLEAN, ip \in BOOLEAN,
      as \in ArgChoices(f.args),
      \* the oracle reports no new arrays for main
      t \in {u \in RefModNews : f.name = "main" => u.news = <<>>}}
  \cup
  {[kind |-> "call", ctx |-> Ctx("REGISTERS", np, ip),
    ir |-> CallIR(Call(f.ret, 1, as)), fns |-> <<f>>,
    mem |-> Mem(<<>>, NoArrays)] :
      np \in BOOLEAN, ip \in BOOLEAN, as \in ArgChoices(f.args)}

SpecialCallInputs ==
  \* indirect calls
  {[kind |-> "call", ctx |-> Ctx(lv, FALSE, ip),
    ir |-> CallIR(Call(r, 0, <<X>>)), fns |-> <<>>, mem |-> Mem(<<>>, NoArrays)] :
      lv \in {"NONE", "ARRAYS"}, ip \in BOOLEAN, r \in {"void", "int", "ptr"}}
  \cup
  \* ignored functions and allocation
  {[kind |-> "call", ctx |-> [Ctx("ARRAYS", FALSE, ip) EXCEPT !.fname = fname],
    ir |-> CallIR(Call("ptr", 1, <<X>>)),
    fns |-> <<Function(nm, <<"int">>, "ptr", FALSE, TRUE, FALSE)>>,
    mem |-> Mem([v \in {InstV("ptr", 1)} |-> a], NoArrays)] :
      ip \in BOOLEAN, fname \in {"main", "f"},
      nm \in {"shadow.mem.load", "seahorn.fn.enter", "malloc", "calloc"},
      a \in {0 - 1, 1}}
  \cup
  \* memory intrinsics
  {[kind |-> "call", ctx |-> Ctx("ARRAYS", FALSE, ip),
    ir |-> CallIR(Call("void", 1, <<P, v, X>>)),
    fns |-> <<Function(nm, <<"ptr", v.ty, "int">>, "void", FALSE, TRUE, TRUE)>>,
    mem |-> Mem([w \in {P, Q} |-> IF w = P THEN a ELSE b], NoArrays)] :
      ip \in BOOLEAN, v \in {C0, X, Q},
      nm \in {"llvm.memset.p0i8.i32", "llvm.memcpy.p0i8.p0i8.i32",
              "llvm.memmove.p0i8.p0i8.i32"},
      a \in {0 - 1, 0, 1}, b \in {0 - 1, 1, 2}}
  \cup
  \* verifier.assume and verifier.assume.not
  {[kind |-> "call", ctx |-> Ctx("ARRAYS", FALSE, ip),
    ir |-> CallIR(Call("void", 1, <<c>>)),
    fns |-> <<Function(nm, <<c.ty>>, "void", FALSE, TRUE, FALSE)>>,
    mem |-> Mem(<<>>, NoArrays)] :
      ip \in BOOLEAN, c \in {InstV("i1", 2), InstV("int", 3), B},
      nm \in {"verifier.assume", "verifier.assume.not"}}

CallBlock == IrLabel(1)

InitCall ==
  /\ \/ \E f \in OrdinaryCallees : input \in CallInputs(f)
     \/ input \in SpecialCallInputs
  /\ pc = "call"
  /\ ir = input.ir
  /\ cfg = CfgInsert(NewCfg(CallBlock), CallBlock)
  /\ bld = None
  /\ vfac = 0
  /\ last = <<>>

\* SymExecVisitor v (...); v.visit (I) for the call instruction.
VisitCall ==
  /\ pc = "call"
  /\ LET r == VisitCallInst(input.ctx, input.mem, input.fns,
                            [bb |-> cfg.stmts[CallBlock], vfac |-> vfac, ir |-> ir], 1)
     IN /\ cfg' = [cfg EXCEPT !.stmts[CallBlock] = r.bb]
        /\ vfac' = r.vfac
        /\ ir' = r.ir
        /\ last' = Append(last, [op |-> "call", id |-> 1, neg |-> FALSE,
                                 ret |-> <<>>, at |-> Len(cfg.stmts[CallBlock]),
                                 n |-> Len(r.bb) - Len(cfg.stmts[CallBlock])])
  /\ pc' = "called"
  /\ UNCHANGED <<input, bld>>

\* The CfgBuilder of the callee adds the callee's function declaration.
BuildCalleeDecl ==
  /\ pc = "called"
  /\ input.ctx.interproc
  /\ ir.insts[1].callee # 0
  /\ ~input.fns[ir.insts[1].callee].isDeclaration
  /\ ~input.fns[ir.insts[1].callee].isVarArg
  /\ LET f == ir.insts[1].callee
         d == FunctionDecl(input.ctx, input.fns, f,
                           [i \in Idx(input.fns[f].args) |->
                              FormalV(input.fns[f].args[i], i)],
                           input.mem.fn[f], <<>>, vfac)
     IN /\ vfac' = d.vfac
        /\ last' = Append(last, [op |-> "decl", id |-> f, neg |-> FALSE,
                                 ret |-> d, at |-> 0, n |-> 0])
  /\ pc' = "declared"
  /\ UNCHANGED <<input, ir, cfg, bld>>

NextCall == VisitCall \/ BuildCalleeDecl

SpecCall == InitCall /\ [][NextCall]_vars


(***************************************************************************)
(* Calls: what is emitted around a callsite statement, and how the         *)
(* parameters of a callsite line up with those of the callee.              *)
(***************************************************************************)
\* The statements the i-th logged call of the visitor appended.
CallEmitted(i) ==
  SubSeq(cfg.stmts[CallBlock], last[i].at + 1, last[i].at + last[i].n)

CallVisits == {i \in Idx(last) : last[i].op = "call"}

CallsiteAt(em) == {k \in Idx(em) : em[k].op = "callsite"}

ArrayHavocsAt(em) == {k \in Idx(em) : em[k].op = "havoc" /\ em[k].lhs.n = "arr"}

\* Functions that visitCallInst gives no special meaning.
IsOrdinaryCallee(inp, id) ==
  /\ inp.ir.insts[id].callee # 0
  /\ inp.fns[inp.ir.insts[id].callee].name \in {"g", "main", "ext"}

\* C8 as stated: in ARRAYS mode, when a call is lowered to a callsite
\* statement, every array of the call site's mod-set is havocked by a
\* statement after the callsite statement in the same block.
C8_ModsHavockedAfterCallsite ==
  (input.kind = "call" /\ input.ctx.level = "ARRAYS") =>
    \A i \in CallVisits :
      LET em == CallEmitted(i)
      IN \A k \in CallsiteAt(em) :
           \A a \in SeqRange(input.mem.cs[last[i].id].mods) :
             \E j \in Idx(em) : j > k /\ em[j] = StHavoc(symVarArr(a))

\* C8 amended: in ARRAYS mode, a call lowered to a callsite statement has
\* the callsite as its last statement, and the arrays havocked for it are
\* exactly those of the call site's ref-set, each before the callsite
\* statement; a call to an ordinary function lowered without a callsite
\* statement havocs every array of the call site's mod-set.
C8_HavocsAroundCallsite ==
  (input.kind = "call" /\ input.ctx.level = "ARRAYS") =>
    \A i \in CallVisits :
      LET em == CallEmitted(i)
          t == input.mem.cs[last[i].id]
      IN /\ \A k \in CallsiteAt(em) :
              /\ k = Len(em)
              /\ {em[j].lhs : j \in ArrayHavocsAt(em)}
                   = {symVarArr(a) : a \in SeqRange(t.refs)}
              /\ \A j \in ArrayHavocsAt(em) : j < k
         /\ (IsOrdinaryCallee(input, last[i].id) /\ CallsiteAt(em) = {}) =>
              \A a \in SeqRange(t.mods) :
                \E j \in Idx(em) : em[j] = StHavoc(symVarArr(a))

\* A call was lowered to a callsite statement while the oracle reports two
\* ref arrays and a mod array for it.
C8_Witness ==
  /\ input.kind = "call"
  /\ input.ctx.level = "ARRAYS"
  /\ pc = "called"
  /\ CallsiteAt(CallEmitted(1)) # {}
  /\ Len(input.mem.cs[1].refs) = 2
  /\ input.mem.cs[1].mods = <<1>>

\* The arguments that count as scalar parameters.
ScalarArgIdx(ctx, tys) ==
  {i \in Idx(tys) : isTracked(ctx, FormalV(tys[i], i))
                     /\ (ctx.NoPtrArith => isIntegerTy(tys[i]))}

\* The array part of a parameter list that has ns scalars in front.
ArrayLayout(ps, ns, t) ==
  /\ Len(ps) = ns + 2 * Len(t.refs) + Len(t.news)
  /\ \A k \in Idx(t.refs) :
       /\ ps[ns + k].name.n = "fresh"
       /\ ps[ns + k].ty = "ARR_TYPE"
       /\ ps[ns + Len(t.refs) + k]
            = [name |-> symVarArr(t.refs[k]), ty |-> "ARR_TYPE"]
  /\ \A k, l \in Idx(t.refs) : k # l => ps[ns + k].name # ps[ns + l].name
  /\ \A k \in Idx(t.news) :
       ps[ns + 2 * Len(t.refs) + k]
         = [name |-> symVarArr(t.news[k]), ty |-> "ARR_TYPE"]

\* The scalar part: the k-th formal and the k-th actual stand for the same
\* argument, and the arguments come in increasing order.
ScalarLayout(actuals, formals, ops, ctx, tys) ==
  LET ns == Cardinality(ScalarArgIdx(ctx, tys))
  IN /\ Len(actuals) >= ns /\ Len(formals) >= ns
     /\ \A k \in 1 .. ns :
          /\ formals[k].name.n = "formal"
          /\ formals[k].name.id \in ScalarArgIdx(ctx, tys)
          /\ k > 1 => formals[k - 1].name.id < formals[k].name.id
          /\ formals[k].ty # "ARR_TYPE" /\ actuals[k].ty # "ARR_TYPE"
          /\ LET v == ops[formals[k].name.id]
             IN IF v.k \in {"const", "undef"}
                THEN actuals[k].name.n = "fresh"
                ELSE actuals[k].name = symVar(v)

\* Before the callsite statement at k: a_in := a and then havoc a, for
\* every ref array a, a_in being the actual in a's snapshot position.
SnapshotsBefore(em, k, ns, t) ==
  \A r \in Idx(t.refs) :
    \E i, j \in 1 .. k - 1 :
      /\ i < j
      /\ em[i] = StAssign(em[k].args[ns + r].name, ExpVar(symVarArr(t.refs[r])))
      /\ em[j] = StHavoc(symVarArr(t.refs[r]))

ParamsLineUp ==
  LET em == CallEmitted(1)
      k == CHOOSE c \in CallsiteAt(em) : TRUE
      f == input.ir.insts[1].callee
      t == input.mem.cs[1]
      ns == Cardinality(ScalarArgIdx(input.ctx, input.fns[f].args))
      formals == last[2].ret.decl.params
  IN /\ Len(em[k].args) = Len(formals)
     /\ ScalarLayout(em[k].args, formals, input.ir.insts[1].ops, input.ctx,
                     input.fns[f].args)
     /\ ArrayLayout(em[k].args, ns, t)
     /\ ArrayLayout(formals, ns, t)
     /\ SnapshotsBefore(em, k, ns, t)

\* The callee's declaration was built after a call to it was lowered to a
\* callsite statement, in inter-procedural ARRAYS mode, and the oracle
\* answers alike for the call site and the callee.
CalleeDeclared ==
  /\ input.kind = "call"
  /\ pc = "declared"
  /\ input.ctx.level = "ARRAYS"
  /\ input.ctx.interproc
  /\ CallsiteAt(CallEmitted(1)) # {}
  /\ input.mem.cs[1].refs = input.mem.fn[input.ir.insts[1].callee].refs
  /\ input.mem.cs[1].news = input.mem.fn[input.ir.insts[1].callee].news

\* C9: in inter-procedural ARRAYS mode the actuals of the callsite statement
\* and the formals of the callee's declaration have the same length and the
\* same layout (scalars in argument order, a snapshot name per ref array,
\* the ref arrays, the new arrays), and a_in := a, havoc a precede the
\* callsite statement for every ref array a.
C9_ActualsMatchFormals == CalleeDeclared => ParamsLineUp

\* The same, for callees other than a function named main.
C9_CalleeNotMain ==
  (CalleeDeclared /\ input.fns[input.ir.insts[1].callee].name # "main")
    => ParamsLineUp

\* A callee other than main with scalars, ref arrays and a new array.
C9_CalleeNotMainWitness ==
  /\ CalleeDeclared
  /\ input.fns[input.ir.insts[1].callee].name # "main"
  /\ Len(input.mem.cs[1].refs) = 2
  /\ Len(input.mem.cs[1].news) = 1
  /\ Cardinality(ScalarArgIdx(input.ctx, input.fns[1].args)) = 2

(***************************************************************************)
(* The memory intrinsics.                                                  *)
(***************************************************************************)
IntrinsicVisits(names) ==
  {i \in CallVisits :
     /\ input.ir.insts[last[i].id].callee # 0
     /\ input.fns[input.ir.insts[last[i].id].callee].isIntrinsic
     /\ input.fns[input.ir.insts[last[i].id].callee].name \in names}

\* The oracle's array id of the k-th argument of the call.
ArgArrayId(i, k) ==
  LET v == input.ir.insts[last[i].id].ops[k]
  IN IF v \in DOMAIN input.mem.aid THEN input.mem.aid[v] ELSE 0 - 1

\* C14: memcpy with array ids A >= 0 and B >= 0 emits havoc A; A := B and
\* nothing else, and nothing when an id is negative; memmove emits nothing;
\* memset of a constant v on a region with id A >= 0 emits havoc A;
\* assume_array(A, v) and nothing else.
C14_MemIntrinsics ==
  input.kind = "call" =>
    /\ \A i \in IntrinsicVisits({"llvm.memcpy.p0i8.p0i8.i32"}) :
         LET A == ArgArrayId(i, 1)
             B0 == ArgArrayId(i, 2)
         IN IF A >= 0 /\ B0 >= 0
            THEN CallEmitted(i) = <<StHavoc(symVarArr(A)),
                                    StAssign(symVarArr(A), ExpVar(symVarArr(B0)))>>
            ELSE CallEmitted(i) = <<>>
    /\ \A i \in IntrinsicVisits({"llvm.memmove.p0i8.p0i8.i32"}) :
         CallEmitted(i) = <<>>
    /\ \A i \in IntrinsicVisits({"llvm.memset.p0i8.i32"}) :
         LET A == ArgArrayId(i, 1)
             val == input.ir.insts[last[i].id].ops[2]
         IN (A >= 0 /\ val.k = "const") =>
              CallEmitted(i) = <<StHavoc(symVarArr(A)),
                                 StAssumeArray(symVarArr(A), val.id)>>

\* A memcpy from array 2 into array 0 was lowered.
C14_Witness ==
  /\ input.kind = "call"
  /\ pc = "called"
  /\ IntrinsicVisits({"llvm.memcpy.p0i8.p0i8.i32"}) # {}
  /\ ArgArrayId(1, 1) = 0
  /\ ArgArrayId(1, 2) = 2
  /\ Len(CallEmitted(1)) = 2


(***************************************************************************)
(* build_cfg: the blocks are added, every block is visited and its         *)
(* outgoing edges are translated one by one, the returns are unified, the  *)
(* arrays are initialized and the function declaration is added.           *)
(***************************************************************************)
RetVoid == TRet(UndefV("void"))

\* The signature of the function being translated: X, Y, P, Q, B, F.
SelfArgs == <<"int", "int", "ptr", "ptr", "i1", "flt">>

\* The functions of the module: the one being translated, an ordinary
\* function, verifier.assume and verifier.assume.not.
Module(name, ret) ==
  <<Function(name, SelfArgs, ret, FALSE, FALSE, FALSE),
    Function("g", <<"int">>, "int", FALSE, FALSE, FALSE),
    Function("verifier.assume", <<"i1">>, "void", FALSE, TRUE, FALSE),
    Function("verifier.assume.not", <<"i1">>, "void", FALSE, TRUE, FALSE)>>

CfgInput(ctx, name, ret, insts, blocks, aid, t, globals) ==
  [kind |-> "cfg", ctx |-> [ctx EXCEPT !.fname = name],
   ir |-> [insts |-> insts, blocks |-> blocks],
   fns |-> Module(name, ret),
   mem |-> [aid |-> aid, cs |-> [i \in DOMAIN insts |-> NoArrays],
            fn |-> <<t>>],
   globals |-> globals]

\* Control-flow shapes: the terminators block b of n may have.  The entry
\* block is no successor.
Targets(b, n) == {b + 1, 2, b} \cap (2 .. n)

TargetPairs(b, n) ==
  {<<d, d>> : d \in Targets(b, n)}
  \cup ({<<b + 1, 2>>, <<b, b + 1>>, <<2, b + 1>>}
        \cap (Targets(b, n) \X Targets(b, n)))

Terms(b, n) ==
  {RetVoid, TUnreachable}
  \cup {TBr(d) : d \in Targets(b, n)}
  \cup {TCbr(B, d[1], d[2]) : d \in TargetPairs(b, n)}
  \cup {TSwitch(X, <<d, d>>) : d \in {b + 1} \cap (2 .. n)}

GraphInputs ==
  UNION {{CfgInput(Ctx("REGISTERS", FALSE, FALSE), "f", "void", <<>>,
                   [b \in 1 .. n |-> Block(<<>>, <<>>, ts[b])],
                   <<>>, NoArrays, <<>>) :
            ts \in {u \in [1 .. n -> UNION {Terms(b, n) : b \in 1 .. n}] :
                      \A b \in 1 .. n : u[b] \in Terms(b, n)}} :
         n \in 1 .. MaxBlocks}

\* Conditions: two compares, an instruction over them, a verifier call, and
\* a conditional branch.
I1 == InstV("i1", 1)
I2 == InstV("i1", 2)
True == ConstV("i1", 1)
False == ConstV("i1", 0)

CondInsts(p, ab, third, callee, arg) ==
  <<ICmp(p, ab[1], ab[2]), ICmp("NE", Y, C0), third, Call("void", callee, <<arg>>)>>

CondBranches(third) ==
  {TCbr(I1, 2, 3), TCbr(I1, 2, 2), TCbr(True, 2, 3), TCbr(False, 3, 2),
   TCbr(IF third.ty = "i1" THEN InstV("i1", 3) ELSE B, 3, 2)}

BranchInputs ==
  {CfgInput(Ctx("ARRAYS", FALSE, FALSE), "f", "void",
            CondInsts(p, ab, third, callee, I1),
            <<Block(<<>>, <<1, 2, 3, 4>>, t), Block(<<>>, <<>>, RetVoid),
              Block(<<>>, <<>>, TBr(2))>>,
            <<>>, NoArrays, <<>>) :
     p \in Preds, ab \in {<<X, Y>>, <<X, C0>>},
     third \in {BinOp("and", "i1", I1, I2), BinOp("or", "i1", I1, I2),
                ZExt(I1), Select("int", I1, X, Y)},
     callee \in {3, 4},
     t \in UNION {CondBranches(th) :
                    th \in {BinOp("and", "i1", I1, I2), ZExt(I1)}}}

\* Phis: block 2 has two phis with an incoming value from block 1 and, when
\* block 2 branches to itself, from block 2.
PhiBlockInputs ==
  UNION {
    {CfgInput(Ctx("ARRAYS", np, FALSE), "f", "void",
              <<Phi(ty, <<IF ty = "int" THEN X ELSE P, v[1]>>, <<1, 2>>),
                Phi(ty, <<IF ty = "int" THEN C1 ELSE Q, v[2]>>, <<1, 2>>)>>,
              <<Block(<<>>, <<>>, t1), Block(<<1, 2>>, <<>>, t2),
                Block(<<>>, <<>>, RetVoid)>>,
              <<>>, NoArrays, <<>>) :
       np \in BOOLEAN,
       v \in {InstV(ty, 1), InstV(ty, 2), IF ty = "int" THEN Y ELSE Q}
             \X {InstV(ty, 1), InstV(ty, 2), UndefV(ty)},
       t1 \in {TBr(2), TCbr(B, 2, 3), TCbr(B, 2, 2), TSwitch(X, <<2, 2>>)},
       t2 \in {TBr(2), TCbr(B, 2, 3), TCbr(B, 3, 2), TSwitch(X, <<2, 3>>)}} :
    ty \in {"int", "ptr"}}

\* Returns, arrays and the declaration.
OneOrTwoReturns(v) ==
  {<<Block(<<>>, <<1>>, TRet(v))>>,
   <<Block(<<>>, <<1>>, TCbr(B, 2, 3)), Block(<<>>, <<>>, TRet(v)),
     Block(<<>>, <<>>, TRet(v))>>}

Globals ==
  {<<>>,
   <<[init |-> "zero", vals |-> <<>>], [init |-> "int", vals |-> <<>>]>>,
   <<[init |-> "data", vals |-> <<1, 0>>], [init |-> "none", vals |-> <<>>]>>}

\* v is the value the function returns.
DeclInputs(v) ==
  {CfgInput(Ctx("ARRAYS", np, ip), name, v.ty,
            <<Call("int", 2, <<X>>)>>, blocks,
            [gv \in {GlobalV(1), GlobalV(2)} |-> IF gv.id = 1 THEN a ELSE 0 - 1],
            [refs |-> t.refs, mods |-> t.mods,
             news |-> IF name = "main" THEN <<>> ELSE t.news],
            globals) :
     np \in BOOLEAN, ip \in BOOLEAN, name \in {"main", "f"},
     blocks \in OneOrTwoReturns(v), a \in {0 - 1, 1},
     t \in {u \in RefModNews : u.mods = <<>>},
     globals \in Globals}
  \cup
  {CfgInput(Ctx("REGISTERS", FALSE, ip), name, v.ty, <<Call("int", 2, <<X>>)>>,
            blocks, <<>>, NoArrays, <<>>) :
     ip \in BOOLEAN, name \in {"main", "f"}, blocks \in OneOrTwoReturns(v)}

ReturnedValues == {UndefV("void"), X, P}

\* Arithmetic: one binary operator in a returning block.  Shift amounts
\* are not negative.
ArithInputs ==
  {CfgInput(Ctx("REGISTERS", FALSE, FALSE), "f", "void",
            <<BinOp(o, "int", a, b)>>, <<Block(<<>>, <<1>>, RetVoid)>>,
            <<>>, NoArrays, <<>>) :
     o \in BinaryOps, a \in {X, C1, CM1, UndefV("int")}, b \in {Y, C1, C0}}

\* Shift amounts: those legal in 8, 16 and 32 bits (below 32) and those
\* legal only in 64 bits (32 to 63).
ShiftAmounts == {0, 1, 2, 7, 8, 15, 16, 30, 32, 33, 62, 63}

\* One block with one shift, by a constant amount or by a variable one.
ShiftInputs ==
  {CfgInput(Ctx("REGISTERS", FALSE, FALSE), "f", "void",
            <<BinOp(o, "int", a, b)>>, <<Block(<<>>, <<1>>, RetVoid)>>,
            <<>>, NoArrays, <<>>) :
     o \in {"shl", "ashr", "lshr"}, a \in {X, C1, UndefV("int")},
     b \in {ConstV("int", k) : k \in ShiftAmounts} \cup {Y}}

\* One block with one load or store.  The oracle gives the pointers an array
\* id, negative or not, and says whether array 1 stands for the scalar
\* global 1.
MemInputs ==
  {[c EXCEPT !.mem = [aid |-> c.mem.aid, cs |-> c.mem.cs, fn |-> c.mem.fn,
                      single |-> sg]] :
     c \in {CfgInput(Ctx(level, FALSE, FALSE), "f", "void",
                     <<I>>, <<Block(<<>>, <<1>>, RetVoid)>>,
                     [p \in {P, UndefV("ptr")} |-> a], NoArrays, <<>>) :
              level \in {"ARRAYS", "REGISTERS"},
              I \in {Load(t, p) : t \in {"int", "ptr"}, p \in {P, UndefV("ptr")}}
                    \cup {Store(v, p) : v \in {X, C1, UndefV("int"), Q},
                                        p \in {P, UndefV("ptr")}},
              a \in {0 - 1, 0, 1}},
     sg \in {<<>>, <<GlobalV(1)>>}}

\* A conditional branch on a constant; block 2 has a phi.
ConstBranchInputs ==
  {CfgInput(Ctx("REGISTERS", FALSE, FALSE), "f", "void",
            <<Phi("int", <<v, v>>, <<1, 1>>)>>,
            <<Block(<<>>, <<>>, TCbr(c, d[1], d[2])), Block(<<1>>, <<>>, RetVoid),
              Block(<<>>, <<>>, RetVoid)>>,
            <<>>, NoArrays, <<>>) :
     c \in {True, False}, d \in {<<2, 3>>, <<3, 2>>, <<2, 2>>, <<3, 3>>},
     v \in {X, C1, UndefV("int")}}

\* One block with a compare and a select (instruction 2) on the compare, on
\* a constant, on an argument or on undef.
SelectInputs ==
  {CfgInput(Ctx("ARRAYS", np, FALSE), "f", "void",
            <<ICmp(p, ab[1], ab[2]), Select(tf[1].ty, c, tf[1], tf[2])>>,
            <<Block(<<>>, <<1, 2>>, RetVoid)>>,
            <<>>, NoArrays, <<>>) :
     np \in BOOLEAN, p \in {"EQ", "SGT", "ULT"},
     ab \in {<<X, Y>>, <<C0, C1>>, <<X, UndefV("int")>>},
     c \in {I1, True, False, B, UndefV("i1")},
     tf \in {<<X, Y>>, <<C1, X>>, <<P, Q>>, <<X, UndefV("int")>>}}

\* A pointer cast (instruction 1, alone in block 1) and two instructions in
\* block 2 that use it, use each other or use neither: loads, stores,
\* calls of g, shadow.mem.load and llvm.dbg.value, casts and an addition.
CastUsers(v) ==
  {Load("int", v), Load("flt", v), Store(X, v), Store(F, v), Store(v, Q),
   Call("int", 2, <<v>>), Call("void", 5, <<v>>), Call("void", 6, <<v>>),
   BitCast("ptr", v)}

UseInputs ==
  {[c EXCEPT !.fns = c.fns \o <<Function("shadow.mem.load", <<"ptr">>, "void",
                                         FALSE, TRUE, FALSE),
                                Function("llvm.dbg.value", <<"ptr">>, "void",
                                         FALSE, TRUE, TRUE)>>] :
     c \in {CfgInput(Ctx("ARRAYS", FALSE, FALSE), "f", "void",
                     <<BitCast("ptr", P), u2, u3>>,
                     <<Block(<<>>, <<1>>, TBr(2)), Block(<<>>, <<2, 3>>, RetVoid)>>,
                     <<>>, NoArrays, <<>>) :
              u2 \in CastUsers(InstV("ptr", 1)),
              u3 \in CastUsers(InstV("ptr", 1))
                     \cup {Load("int", InstV("ptr", 2)), Load("flt", InstV("ptr", 2)),
                           BinOp("add", "int", X, Y)}}}

\* A loop: block 2 has two phis and branches on a compare of the first.
LoopInputs ==
  {CfgInput(Ctx("ARRAYS", FALSE, FALSE), "f", "void",
            <<Phi("int", <<X, v>>, <<1, 2>>), Phi("int", <<C1, w>>, <<1, 2>>),
              ICmp(p, InstV("int", 1), Y)>>,
            <<Block(<<>>, <<>>, TBr(2)),
              Block(<<1, 2>>, <<3>>, TCbr(InstV("i1", 3), d[1], d[2])),
              Block(<<>>, <<>>, RetVoid)>>,
            <<>>, NoArrays, <<>>) :
     v \in {InstV("int", 1), InstV("int", 2), Y},
     w \in {InstV("int", 1), UndefV("int")},
     p \in {"SLT", "UGT", "NE"},
     d \in {<<2, 3>>, <<3, 2>>, <<2, 2>>}}

\* A compare with one, two or three uses: a conditional branch or a call
\* of verifier.assume[.not], and zero, one or two casts.
CmpUseInputs ==
  {CfgInput(Ctx("ARRAYS", np, FALSE), "f", "void",
            <<ICmp(p, ab[1], ab[2]), ZExt(u1), ZExt(u2), Call("void", callee, <<a>>)>>,
            <<Block(<<>>, <<1, 2, 3, 4>>, t), Block(<<>>, <<>>, RetVoid),
              Block(<<>>, <<>>, RetVoid)>>,
            <<>>, NoArrays, <<>>) :
     np \in BOOLEAN, p \in {"EQ", "SGT", "ULE"}, ab \in {<<X, Y>>, <<P, Q>>},
     u1 \in {I1, B}, u2 \in {I1, B}, callee \in {3, 4},
     a \in {I1, InstV("int", 2), B},
     t \in {TCbr(I1, 2, 3), TCbr(B, 2, 3), TBr(2)}}

CfgInputs ==
  GraphInputs \cup BranchInputs \cup PhiBlockInputs \cup ArithInputs \cup LoopInputs
    \cup CmpUseInputs \cup ShiftInputs \cup MemInputs \cup ConstBranchInputs
    \cup SelectInputs \cup UseInputs

InitCfg ==
  /\ \/ input \in CfgInputs
     \/ \E v \in ReturnedValues : input \in DeclInputs(v)
  /\ pc = "add_blocks"
  /\ ir = input.ir
  /\ cfg = NewCfg(IrLabel(1))
  /\ bld = [m_id |-> 0, m_extra_blks |-> <<>>, rets |-> <<>>, cur |-> 1, succ |-> 0]
  /\ vfac = 0
  /\ last = <<>>

\* for (auto &B : m_func) add_block (B)
RECURSIVE AddAllBlocks(_, _, _)
AddAllBlocks(g, n, i) ==
  IF i > n THEN g ELSE AddAllBlocks(CfgInsert(g, IrLabel(i)), n, i + 1)

AddBlocks ==
  /\ pc = "add_blocks"
  /\ cfg' = AddAllBlocks(cfg, Len(ir.blocks), 1)
  /\ pc' = "blocks"
  /\ UNCHANGED <<input, ir, bld, vfac, last>>

\* Where the loop over the blocks stands after block b is done.
AfterBlock(b) == IF b = Len(ir.blocks) THEN "returns" ELSE "blocks"

\* The body of the loop over the blocks up to the loop over the successors:
\* the instructions of the block are translated into its node.
VisitBlock ==
  /\ pc = "blocks"
  /\ bld.succ = 0
  /\ \E r \in {VisitBlockInsts(input.ctx, input.mem, input.fns,
                               [bb |-> cfg.stmts[IrLabel(bld.cur)], vfac |-> vfac,
                                ir |-> ir], bld.cur)} :
       LET b == bld.cur
           term == ir.blocks[b].term
           more == term.op # "ret" /\ term.succs # <<>>
       IN /\ cfg' = [cfg EXCEPT !.stmts[IrLabel(b)] = r.bb]
          /\ vfac' = r.vfac
          /\ ir' = r.ir
          /\ bld' = [bld EXCEPT
                       !.rets = IF term.op = "ret" THEN Append(@, IrLabel(b)) ELSE @,
                       !.cur = IF more THEN b ELSE b + 1,
                       !.succ = IF more THEN 1 ELSE 0]
          /\ pc' = IF more THEN "blocks" ELSE AfterBlock(b)
          /\ last' = Append(last, [op |-> "block", id |-> b,
                                   at |-> Len(cfg.stmts[IrLabel(b)]),
                                   n |-> Len(r.bb) - Len(cfg.stmts[IrLabel(b)])])
  /\ UNCHANGED input

\* One round of the loop over the successors: execBr for the edge, then the
\* phis of the successor are translated into the new block, or into the
\* node of the block when there is none.
ExecEdge ==
  /\ pc = "blocks"
  /\ bld.succ > 0
  /\ \E e \in {execBr(input.ctx, [cfg |-> cfg, bld |-> bld, ir |-> ir], bld.cur,
                      ir.blocks[bld.cur].term.succs[bld.succ])} :
       LET b == bld.cur
           term == ir.blocks[b].term
           dst == term.succs[bld.succ]
           node == IF e.mid # NoLabel THEN e.mid ELSE IrLabel(b)
           before == e.cfg.stmts[node]
           more == bld.succ < Len(term.succs)
       IN \E r \in {PhiVisitBasicBlock(input.ctx, e.ir, dst, b, before, vfac)} :
            /\ cfg' = [e.cfg EXCEPT !.stmts[node] = r.bb]
            /\ vfac' = r.vfac
            /\ ir' = e.ir
            /\ bld' = [e.bld EXCEPT !.cur = IF more THEN b ELSE b + 1,
                                    !.succ = IF more THEN bld.succ + 1 ELSE 0]
            /\ pc' = IF more THEN "blocks" ELSE AfterBlock(b)
            /\ last' = Append(last, [op |-> "edge", id |-> b, dst |-> dst,
                                     k |-> bld.succ, mid |-> e.mid, node |-> node,
                                     is_negated |-> e.is_negated,
                                     at |-> Len(before),
                                     n |-> Len(r.bb) - Len(before)])
  /\ UNCHANGED input

UnifyReturns ==
  /\ pc = "returns"
  /\ LET r == UnifyReturnBlocks(cfg, bld)
     IN cfg' = r.cfg /\ bld' = r.bld
  /\ pc' = "arrays"
  /\ UNCHANGED <<input, ir, vfac, last>>

InitArrays ==
  /\ pc = "arrays"
  /\ cfg' = [cfg EXCEPT !.stmts[cfg.entry] =
               ArraysPrelude(input.ctx, input.mem, input.globals,
                             input.mem.fn[1].news, @)]
  /\ pc' = "decl"
  /\ UNCHANGED <<input, ir, bld, vfac, last>>

AddFunctionDecl ==
  /\ pc = "decl"
  /\ IF input.ctx.interproc
     THEN LET d == FunctionDecl(input.ctx, input.fns, 1,
                                [i \in Idx(SelfArgs) |-> ArgV(SelfArgs[i], i)],
                                input.mem.fn[1], cfg.stmts[cfg.entry], vfac)
          IN /\ cfg' = [cfg EXCEPT !.stmts[cfg.entry] = d.entry, !.decl = d.decl]
             /\ vfac' = d.vfac
     ELSE UNCHANGED <<cfg, vfac>>
  /\ pc' = "done"
  /\ UNCHANGED <<input, ir, bld, last>>

NextCfg ==
  \/ AddBlocks
  \/ VisitBlock
  \/ ExecEdge
  \/ UnifyReturns
  \/ InitArrays
  \/ AddFunctionDecl

SpecCfg == InitCfg /\ [][NextCfg]_vars


(***************************************************************************)
(* The finished CFG: edge blocks, phis, the exit, and the IR afterwards.   *)
(***************************************************************************)
Built == input.kind = "cfg" /\ pc = "done"

SuccsOf(l) == {e[2] : e \in {x \in cfg.edges : x[1] = l}}
PredsOf(l) == {e[1] : e \in {x \in cfg.edges : x[2] = l}}

SyntheticNodes == {l \in cfg.nodes : l.b = "extra"}

GivenBlocks == Idx(input.ir.blocks)
GivenTerm(b) == input.ir.blocks[b].term
CondBranchBlocks == {b \in GivenBlocks : GivenTerm(b).op = "cbr"}
ReturningBlocks == {b \in GivenBlocks : GivenTerm(b).op = "ret"}

\* An edge block between src and dst: a synthetic node whose only
\* predecessor is src and whose only successor is dst.
IsEdgeBlock(l, src, dst) ==
  /\ l \in SyntheticNodes
  /\ PredsOf(l) = {IrLabel(src)}
  /\ SuccsOf(l) = {IrLabel(dst)}

C10_IRUnchanged ==
  Built =>
    \A i \in DOMAIN input.ir.insts :
      /\ ir.insts[i].op = input.ir.insts[i].op
      /\ ir.insts[i].pred = input.ir.insts[i].pred
      /\ ir.insts[i].ops = input.ir.insts[i].ops

\* The same for functions whose compares are not UGT, SGT, UGE or SGE.
C10_WithoutGreaterCompares ==
  (Built /\ \A i \in DOMAIN input.ir.insts : ~IsGreaterPred(input.ir.insts[i].pred))
    => ir = input.ir

\* Statements that define the name x.
Defines(st, x) ==
  \/ st.op \in {"assign", "havoc", "select", "assume_array", "array_init", "return"}
       \cup CrabBinOps
     /\ st.lhs = x
  \/ st.op = "callsite" /\ st.lhs.name = x

DefsIn(l, x) == {j \in Idx(cfg.stmts[l]) : Defines(cfg.stmts[l][j], x)}

\* The IR edges into block b: the predecessor and the position of b among
\* its successors.
GivenEdgesInto(b) ==
  {e \in GivenBlocks \X (1 .. 3) :
     e[2] <= Len(GivenTerm(e[1]).succs) /\ GivenTerm(e[1]).succs[e[2]] = b}

\* The node where the claim places the phi statements of an IR edge: the
\* edge block made for it, or the node of the predecessor.
EdgeRecs == {i \in Idx(last) : last[i].op = "edge"}

EdgeRec(e) == CHOOSE i \in EdgeRecs : last[i].id = e[1] /\ last[i].k = e[2]

PlaceOf(e, b) ==
  IF GivenTerm(e[1]).op = "cbr"
  THEN CHOOSE l \in cfg.nodes : l = last[EdgeRec(e)].mid /\ IsEdgeBlock(l, e[1], b)
  ELSE IrLabel(e[1])

OneDefPerEdge(b, p) ==
  LET x == symVar(InstV(input.ir.insts[p].ty, p))
  IN /\ \A e \in GivenEdgesInto(b) :
          GivenTerm(e[1]).op = "cbr" =>
            \E l \in cfg.nodes : l = last[EdgeRec(e)].mid /\ IsEdgeBlock(l, e[1], b)
     /\ \A l \in cfg.nodes :
          /\ Cardinality(DefsIn(l, x))
               = Cardinality({e \in GivenEdgesInto(b) : PlaceOf(e, b) = l})
          /\ \A j \in DefsIn(l, x) : cfg.stmts[l][j].op \in {"assign", "havoc"}

NoPhiStatement ==
  \A l \in cfg.nodes : \A j \in Idx(cfg.stmts[l]) : cfg.stmts[l][j].op # "phi"

TrackedPhis(b) ==
  {p \in SeqRange(input.ir.blocks[b].phis) :
     isTracked(input.ctx, InstV(input.ir.insts[p].ty, p))}

\* The phis phi lowering passes over: not integer, with pointer arithmetic
\* disabled.
PassedOver(p) == input.ctx.NoPtrArith /\ ~isIntegerTy(input.ir.insts[p].ty)

BlockRecs == {i \in Idx(last) : last[i].op = "block"}

\* The statements the i-th logged block visit appended to its node.
BlockEmitted(i) ==
  SubSeq(cfg.stmts[IrLabel(last[i].id)], last[i].at + 1, last[i].at + last[i].n)

\* Visits of a block that holds one instruction, an arithmetic one with one
\* of the opcodes ops, whose operands look up, the left one as a constant
\* (and for udiv and urem the right one not as a constant).
ConstLeftVisits(ops) ==
  {i \in BlockRecs :
     LET blk == input.ir.blocks[last[i].id]
     IN /\ blk.phis = <<>> /\ Len(blk.body) = 1
        /\ LET I == input.ir.insts[blk.body[1]]
           IN /\ I.op \in ops
              /\ lookup(input.ctx, I.ops[1]) # None
              /\ lookup(input.ctx, I.ops[2]) # None
              /\ is_constant(lookup(input.ctx, I.ops[1]))
              /\ I.op \in {"udiv", "urem"}
                   => ~is_constant(lookup(input.ctx, I.ops[2]))}

\* dst := const(left); prim dst, dst, right -- and nothing else.
AssignThenPrimitive(i) ==
  LET id == input.ir.blocks[last[i].id].body[1]
      I == input.ir.insts[id]
      dst == symVar(InstV(I.ty, id))
      em == BlockEmitted(i)
  IN /\ em = <<StAssign(dst, lookup(input.ctx, I.ops[1])),
               StBinOp(PrimOf(I.op), dst, ExpVar(dst), lookup(input.ctx, I.ops[2]))>>
     /\ \A j \in Idx(em) : em[j].op \in CrabBinOps => ~is_constant(em[j].l)

\* C13 as stated: for ADD, SUB, MUL, SDIV, SREM, UDIV and UREM with a
\* constant left operand the statements are dst := const(left) and then the
\* primitive on dst and the right operand; no primitive has a constant left
\* operand.
C13_ConstLeftAllOpcodes ==
  input.kind = "cfg" =>
    \A i \in ConstLeftVisits({"add", "sub", "mul", "sdiv", "srem", "udiv", "urem"}) :
      AssignThenPrimitive(i)

\* C13 amended: that holds for SUB, SDIV, SREM, UDIV and UREM; for ADD and
\* MUL with a constant left operand the one statement emitted is the
\* primitive with the constant as its left operand.
C13_ConstLeft ==
  input.kind = "cfg" =>
    /\ \A i \in ConstLeftVisits({"sub", "sdiv", "srem", "udiv", "urem"}) :
         AssignThenPrimitive(i)
    /\ \A i \in ConstLeftVisits({"add", "mul"}) :
         LET id == input.ir.blocks[last[i].id].body[1]
             I == input.ir.insts[id]
         IN BlockEmitted(i)
              = <<StBinOp(I.op, symVar(InstV(I.ty, id)),
                          lookup(input.ctx, I.ops[1]), lookup(input.ctx, I.ops[2]))>>

\* r = sub 1, y was translated.
C13_Witness ==
  /\ Built
  /\ ConstLeftVisits({"sub"}) # {}
  /\ input.ir.insts[1].ops = <<C1, Y>>
  /\ Len(cfg.stmts[IrLabel(1)]) = 2


(***************************************************************************)
(* The polarity of the condition in the two edge blocks of a branch.       *)
(***************************************************************************)
\* Conditional branches on a value that an instruction computes.
InstCondBranchBlocks ==
  {b \in CondBranchBlocks : GivenTerm(b).cond.k = "inst"}

\* The edge records of block b whose condition visitor had polarity neg.
EdgesLowered(b, neg) ==
  {i \in EdgeRecs : last[i].id = b /\ last[i].is_negated = <<neg>>}

OppositePolarities(b) ==
  /\ Cardinality(EdgesLowered(b, FALSE)) = 1
  /\ Cardinality(EdgesLowered(b, TRUE)) = 1
  /\ \A i \in EdgesLowered(b, FALSE) :
       last[i].k = 1 /\ IsEdgeBlock(last[i].mid, b, GivenTerm(b).succs[1])
  /\ \A i \in EdgesLowered(b, TRUE) :
       last[i].k = 2 /\ IsEdgeBlock(last[i].mid, b, GivenTerm(b).succs[2])

\* C15: the two edge blocks of a conditional branch on an instruction get
\* opposite polarities, the edge to the true successor non-negated and the
\* edge to the false successor negated, also when the two successors are
\* the same block.
C15_OppositePolarities ==
  Built => \A b \in InstCondBranchBlocks : OppositePolarities(b)

\* The same for branches whose two successors differ.
C15_DistinctSuccessors ==
  Built =>
    \A b \in InstCondBranchBlocks :
      GivenTerm(b).succs[1] # GivenTerm(b).succs[2] => OppositePolarities(b)

C15_DistinctSuccessorsWitness ==
  /\ Built
  /\ \E b \in InstCondBranchBlocks :
       /\ GivenTerm(b).succs[1] # GivenTerm(b).succs[2]
       /\ input.ir.insts[GivenTerm(b).cond.id].op = "icmp"
       /\ cfg.stmts[ExtraLabel(1)] # cfg.stmts[ExtraLabel(2)]


(***************************************************************************)
(* The order of the statements in an edge block.                           *)
(***************************************************************************)
\* The names phi lowering for block dst may define: the phis of dst and
\* fresh names.
IsPhiLoweringStmt(st, dst) ==
  /\ st.op \in {"assign", "havoc"}
  /\ \/ st.lhs.n = "fresh"
     \/ \E p \in SeqRange(input.ir.blocks[dst].phis) :
          st.lhs = symVar(InstV(input.ir.insts[p].ty, p))

\* Edge records of conditional branches: each made an edge block.
CondEdgeRecs == {i \in EdgeRecs : last[i].mid # NoLabel}

\* C16: in every edge block the statements of the branch condition come
\* before the statements of the successor's phis, so no name an assume
\* reads is defined earlier in the block.
C16_ConditionBeforePhis ==
  Built =>
    \A i \in CondEdgeRecs :
      LET E == cfg.stmts[last[i].mid]
      IN /\ \A j, k \in Idx(E) :
              (j < k /\ IsPhiLoweringStmt(E[j], last[i].dst))
                => IsPhiLoweringStmt(E[k], last[i].dst)
         /\ \A k \in Idx(E) :
              E[k].op = "assume" =>
                \A j \in 1 .. (k - 1) : \A x \in CstNames(E[k].cst) :
                  ~Defines(E[j], x)

\* The back edge of a loop that branches on a compare of its own phi: the
\* edge block assumes the compare and then assigns the phi.
C16_Witness ==
  /\ Built
  /\ \E i \in CondEdgeRecs :
       LET E == cfg.stmts[last[i].mid]
       IN /\ last[i].id = last[i].dst
          /\ Len(E) >= 3
          /\ E[1].op = "assume"
          /\ symVar(InstV("int", 1)) \in CstNames(E[1].cst)
          /\ \E k \in Idx(E) : Defines(E[k], symVar(InstV("int", 1)))


(***************************************************************************)
(* The control flow of the IR in the finished CFG.                         *)
(***************************************************************************)
\* The nodes reachable from the nodes S along the edges E.
RECURSIVE Closure(_, _)
Closure(S, E) ==
  LET T == S \cup {e[2] : e \in {x \in E : x[1] \in S}}
  IN IF T = S THEN S ELSE Closure(T, E)

GivenEdges ==
  UNION {{<<IrLabel(b), IrLabel(GivenTerm(b).succs[k])>> :
            k \in Idx(GivenTerm(b).succs)} : b \in GivenBlocks}

\* The CFG has src -> dst or src -> E -> dst with E a synthetic node.
EdgeOrPath(src, dst) ==
  \/ <<src, dst>> \in cfg.edges
  \/ \E E \in SyntheticNodes : <<src, E>> \in cfg.edges /\ <<E, dst>> \in cfg.edges

\* C17: for every IR block B, whatever its terminator, and every successor
\* D of B the CFG has B -> D or B -> E -> D, and every block reachable from
\* the entry in the IR is reachable from the entry node in the CFG.
C17_ControlFlowPreserved ==
  Built =>
    /\ \A e \in GivenEdges : EdgeOrPath(e[1], e[2])
    /\ Closure({IrLabel(1)}, GivenEdges) \subseteq Closure({cfg.entry}, cfg.edges)

\* The same for the blocks that end in a branch, and for functions whose
\* terminators with successors are all branches.
C17_BranchTerminators ==
  Built =>
    /\ \A b \in GivenBlocks : \A k \in Idx(GivenTerm(b).succs) :
         GivenTerm(b).op \in {"br", "cbr"} =>
           EdgeOrPath(IrLabel(b), IrLabel(GivenTerm(b).succs[k]))
    /\ (\A b \in GivenBlocks : GivenTerm(b).op # "switch") =>
         Closure({IrLabel(1)}, GivenEdges) \subseteq Closure({cfg.entry}, cfg.edges)

C17_BranchTerminatorsWitness ==
  /\ Built
  /\ Len(input.ir.blocks) = 3
  /\ GivenTerm(1).op = "cbr" /\ GivenTerm(2).op = "br"
  /\ Closure({IrLabel(1)}, GivenEdges) = {IrLabel(1), IrLabel(2), IrLabel(3)}


(***************************************************************************)
(* A compare that condition lowering visits directly, and its own          *)
(* variable.                                                               *)
(***************************************************************************)
\* The direct visits of a compare made while the CFG was built: for the
\* branch condition of an edge, into the edge block, and for the argument
\* of verifier.assume[.not] (behind a zext or not), into the block of the
\* call.
BranchVisits ==
  {[cmp |-> GivenTerm(last[i].id).cond.id, node |-> last[i].mid,
    neg |-> last[i].is_negated[1]] :
     i \in {j \in CondEdgeRecs :
              /\ last[j].is_negated # <<>>
              /\ isCmpInst(input.ir, GivenTerm(last[j].id).cond)}}

AssumeCalls ==
  {c \in DOMAIN input.ir.insts :
     /\ input.ir.insts[c].op = "call"
     /\ input.ir.insts[c].callee # 0
     /\ input.fns[input.ir.insts[c].callee].name
          \in {"verifier.assume", "verifier.assume.not"}
     /\ isCmpInst(input.ir, StripZExt(input.ir, input.ir.insts[c].ops[1]))
     /\ \E i \in BlockRecs : c \in SeqRange(input.ir.blocks[last[i].id].body)}

AssumeVisits ==
  {[cmp |-> StripZExt(input.ir, input.ir.insts[c].ops[1]).id,
    node |-> IrLabel(CHOOSE b \in GivenBlocks : c \in SeqRange(input.ir.blocks[b].body)),
    neg |-> input.fns[input.ir.insts[c].callee].name = "verifier.assume.not"] :
     c \in AssumeCalls}

CmpVar(v) == symVar(InstV("i1", v.cmp))

BoolConstraint(v) ==
  StAssume(CstEq(ExpVar(CmpVar(v)), ExpCst(IF v.neg THEN 0 ELSE 1)))

\* The statements of the node that constrain the compare's own variable.
OnCmpVar(v) ==
  {k \in Idx(cfg.stmts[v.node]) :
     /\ cfg.stmts[v.node][k].op = "assume"
     /\ CmpVar(v) \in CstNames(cfg.stmts[v.node][k].cst)}

\* With two uses or more the last statement of the visit is the constraint
\* sym_var(cmp) = 1 or 0; with one use nothing constrains sym_var(cmp).
BoolOfCompare(v) ==
  LET S == cfg.stmts[v.node]
  IN IF NumUses(input.ir, v.cmp) >= 2
     THEN /\ S # <<>> /\ S[Len(S)] = BoolConstraint(v)
          /\ OnCmpVar(v) = {Len(S)}
     ELSE OnCmpVar(v) = {}

\* The compare is passed over: an operand is not an integer and pointer
\* arithmetic is disabled.
CmpPassedOver(v) ==
  /\ input.ctx.NoPtrArith
  /\ \E o \in SeqRange(input.ir.insts[v.cmp].ops) : ~isIntegerTy(o.ty)

\* C19 as stated: a direct visit of a compare appends sym_var(cmp) = 1
\* (non-negated) or 0 (negated) after the compare's constraints if and only
\* if the compare has at least two uses.
C19_BoolOfCompareAllCompares ==
  Built => \A v \in BranchVisits \cup AssumeVisits : BoolOfCompare(v)

\* C19 amended: that holds unless pointer arithmetic is disabled and an
\* operand of the compare is not an integer; then the visit emits nothing.
C19_BoolOfCompare ==
  Built =>
    \A v \in BranchVisits \cup AssumeVisits :
      IF CmpPassedOver(v)
      THEN /\ OnCmpVar(v) = {}
           /\ v \in BranchVisits => cfg.stmts[v.node] = <<>>
      ELSE BoolOfCompare(v)

\* A compare with exactly two uses, one of them the branch, and a compare
\* whose only use is the branch.
C19_Witness ==
  /\ Built
  /\ \E v \in BranchVisits :
       /\ NumUses(input.ir, v.cmp) = 2 /\ v.neg /\ ~CmpPassedOver(v)
       /\ Len(cfg.stmts[v.node]) = 2
  /\ \E v \in AssumeVisits : NumUses(input.ir, v.cmp) = 2


(***************************************************************************)
(* build_cfg run twice on one function: the second run has a new builder,  *)
(* a new CFG and a new variable factory, and reads either the function as  *)
(* the first run left it or the function as it was given.                  *)
(***************************************************************************)
RerunInputs == LoopInputs \cup CmpUseInputs \cup BranchInputs \cup DeclInputs(X)

InitRerun ==
  /\ input \in RerunInputs
  /\ pc = "add_blocks"
  /\ ir = input.ir
  /\ cfg = NewCfg(IrLabel(1))
  /\ bld = [m_id |-> 0, m_extra_blks |-> <<>>, rets |-> <<>>, cur |-> 1, succ |-> 0]
  /\ vfac = 0
  /\ last = <<>>

FirstRuns == {k \in Idx(last) : last[k].op = "run"}

\* The first run is over: its CFG and the number of fresh names it issued
\* are kept, and build_cfg starts again.
Rerun ==
  /\ pc = "done"
  /\ FirstRuns = {}
  /\ last' = Append(last, [op |-> "run", cfg |-> cfg, vfac |-> vfac, ir |-> ir])
  /\ ir' \in {ir, input.ir}
  /\ cfg' = NewCfg(IrLabel(1))
  /\ bld' = [m_id |-> 0, m_extra_blks |-> <<>>, rets |-> <<>>, cur |-> 1, succ |-> 0]
  /\ vfac' = 0
  /\ pc' = "add_blocks"
  /\ UNCHANGED input

NextRerun ==
  \/ AddBlocks
  \/ VisitBlock
  \/ ExecEdge
  \/ UnifyReturns
  \/ InitArrays
  \/ AddFunctionDecl
  \/ Rerun

SpecRerun == InitRerun /\ [][NextRerun]_vars

FirstRun == last[CHOOSE k \in FirstRuns : TRUE]

\* C11: the second run of build_cfg ends with the CFG of the first run, the
\* same nodes, edges, statements and declaration, and has issued as many
\* fresh names, each where the first run put it.
C11_Determinism ==
  (pc = "done" /\ FirstRuns # {}) =>
    /\ cfg = FirstRun.cfg
    /\ vfac = FirstRun.vfac

\* A second run over a function whose compare the first run has swapped,
\* with fresh names issued and blocks added on the edges.
C11_Witness ==
  /\ pc = "done" /\ FirstRuns # {}
  /\ FirstRun.ir # input.ir
  /\ ir = FirstRun.ir
  /\ vfac > 0
  /\ bld.m_extra_blks # <<>>


(***************************************************************************)
(* Bitwise instructions.                                                   *)
(***************************************************************************)
\* Visits of a block that holds one instruction, a tracked binary operator
\* with one of the opcodes ops.
BinaryVisits(ops) ==
  {i \in BlockRecs :
     LET blk == input.ir.blocks[last[i].id]
     IN /\ blk.phis = <<>> /\ Len(blk.body) = 1
        /\ LET I == input.ir.insts[blk.body[1]]
           IN /\ I.op \in ops
              /\ Len(I.ops) = 2
              /\ isTracked(input.ctx, InstV(I.ty, blk.body[1]))}

VisitedInst(i) == input.ir.insts[input.ir.blocks[last[i].id].body[1]]

VisitedDst(i) ==
  symVar(InstV(VisitedInst(i).ty, input.ir.blocks[last[i].id].body[1]))

BothLookUp(i) ==
  /\ lookup(input.ctx, VisitedInst(i).ops[1]) # None
  /\ lookup(input.ctx, VisitedInst(i).ops[2]) # None

\* The one statement of the bitwise primitive on the two operands.
BitwisePrimitive(i) ==
  BlockEmitted(i)
    = <<StBinOp(VisitedInst(i).op, VisitedDst(i),
                lookup(input.ctx, VisitedInst(i).ops[1]),
                lookup(input.ctx, VisitedInst(i).ops[2]))>>

\* C21 as stated: a tracked AND, OR or XOR whose operands look up emits the
\* bitwise primitive and nothing else; when an operand does not look up and
\* havoc statements are enabled, a havoc of the destination is emitted.
C21_BitwiseOrHavoc ==
  input.kind = "cfg" =>
    \A i \in BinaryVisits({"and", "or", "xor"}) :
      /\ BothLookUp(i) => BitwisePrimitive(i)
      /\ (~BothLookUp(i) /\ input.ctx.IncludeHavoc)
           => BlockEmitted(i) = <<StHavoc(VisitedDst(i))>>

\* C21 amended: when an operand does not look up, nothing is emitted.
C21_BitwiseOrNothing ==
  input.kind = "cfg" =>
    \A i \in BinaryVisits({"and", "or", "xor"}) :
      /\ BothLookUp(i) => BitwisePrimitive(i)
      /\ ~BothLookUp(i) => BlockEmitted(i) = <<>>

\* r = xor undef, y was visited with havoc statements enabled.
C21_Witness ==
  /\ Built
  /\ input.ctx.IncludeHavoc
  /\ \E i \in BinaryVisits({"xor"}) :
       /\ ~BothLookUp(i)
       /\ VisitedInst(i).ops = <<UndefV("int"), Y>>
       /\ BlockEmitted(i) = <<>>


(***************************************************************************)
(* Shifts by a constant.                                                   *)
(***************************************************************************)
\* c = 2^k, told by halving c k times.
RECURSIVE IsTwoToThe(_, _)
IsTwoToThe(c, k) ==
  IF k = 0 THEN c = 1
  ELSE c > 0 /\ c % 2 = 0 /\ IsTwoToThe(c \div 2, k - 1)

\* Visits of a shl or ashr whose operands look up, the amount as a constant
\* that is not negative.
ConstShiftVisits ==
  {i \in BinaryVisits({"shl", "ashr"}) :
     /\ BothLookUp(i)
     /\ is_constant(lookup(input.ctx, VisitedInst(i).ops[2]))
     /\ lookup(input.ctx, VisitedInst(i).ops[2]).c >= 0}

ShiftAmount(i) == lookup(input.ctx, VisitedInst(i).ops[2]).c

\* The one statement is mul (shl) or div (ashr) of the left operand by a
\* constant that is 2^k.
ByPowerOfTwo(i) ==
  LET em == BlockEmitted(i)
  IN /\ Len(em) = 1
     /\ em[1].op = (IF VisitedInst(i).op = "shl" THEN "mul" ELSE "div")
     /\ em[1].lhs = VisitedDst(i)
     /\ em[1].l = lookup(input.ctx, VisitedInst(i).ops[1])
     /\ is_constant(em[1].r)
     /\ IsTwoToThe(em[1].r.c, ShiftAmount(i))

VariableShiftHavocs ==
  \A i \in BinaryVisits({"shl", "ashr"}) :
    (BothLookUp(i) /\ ~is_constant(lookup(input.ctx, VisitedInst(i).ops[2])))
      => BlockEmitted(i) = <<StHavoc(VisitedDst(i))>>

\* C22: a shl or ashr by a constant k >= 0, k any amount legal in 8, 16, 32
\* or 64 bits, is translated to mul resp. div by exactly 2^k; a shift by a
\* variable amount is translated to a havoc of the destination.
C22_ShiftByPowerOfTwo ==
  input.kind = "cfg" =>
    /\ \A i \in ConstShiftVisits : ByPowerOfTwo(i)
    /\ VariableShiftHavocs

\* That holds for the amounts below 32, where the unsigned factor holds 2^k.
C22_ShiftBelow32 ==
  input.kind = "cfg" =>
    /\ \A i \in ConstShiftVisits : ShiftAmount(i) < 32 => ByPowerOfTwo(i)
    /\ VariableShiftHavocs

C22_ShiftBelow32Witness ==
  /\ Built
  /\ \E i \in ConstShiftVisits :
       /\ ShiftAmount(i) = 30
       /\ VisitedInst(i).op = "ashr"
       /\ BlockEmitted(i)[1].r = ExpCst(1073741824)


(***************************************************************************)
(* Loads and stores.                                                       *)
(***************************************************************************)
\* Visits of a block that holds one instruction, a load or a store.
MemVisits ==
  {i \in BlockRecs :
     LET blk == input.ir.blocks[last[i].id]
     IN /\ blk.phis = <<>> /\ Len(blk.body) = 1
        /\ input.ir.insts[blk.body[1]].op \in {"load", "store"}}

IsLoad(i) == VisitedInst(i).op = "load"

\* The pointer of the access, the type of the value loaded or stored, and
\* the array id of the pointer.
AccessPointer(i) == IF IsLoad(i) THEN VisitedInst(i).ops[1] ELSE VisitedInst(i).ops[2]

AccessType(i) == IF IsLoad(i) THEN VisitedInst(i).ty ELSE VisitedInst(i).ops[1].ty

AccessArray(i) == getArrayId(input.mem, AccessPointer(i))

StoredValue(i) == lookup(input.ctx, VisitedInst(i).ops[1])

InArraysMode(i) == isIntegerTy(AccessType(i)) /\ input.ctx.level = "ARRAYS"

\* The statement of an access whose pointer looks up: on the scalar of a
\* singleton region, or else on the array at the pointer's expression.
AccessStatement(i) ==
  LET a == AccessArray(i)
      s == getSingleton(input.mem, a)
      idx == lookup(input.ctx, AccessPointer(i))
      em == BlockEmitted(i)
  IN IF s # None
     THEN IF IsLoad(i)
          THEN em = <<StAssign(VisitedDst(i), ExpVar(symVar(s)))>>
          ELSE em = <<StAssign(symVar(s), StoredValue(i))>>
     ELSE /\ Len(em) = 1
          /\ em[1].op = (IF IsLoad(i) THEN "array_load" ELSE "array_store")
          /\ em[1].arr = symVarArr(a)
          /\ em[1].idx = idx
          /\ IsLoad(i) => em[1].lhs = VisitedDst(i)
          /\ ~IsLoad(i) => em[1].val = StoredValue(i)

NoArrayStatement(i) ==
  \A j \in Idx(BlockEmitted(i)) :
    BlockEmitted(i)[j].op \notin {"array_load", "array_store"}

\* C23 as stated, for stores of a value that looks up: with a negative
\* array id the load havocs its destination and the store emits nothing;
\* else, when the pointer does not look up, a havoc is emitted; else the
\* one statement is the scalar assignment or the array access; outside
\* ARRAYS mode and for values that are no integers there is no array
\* statement.
C23_LoadStore ==
  input.kind = "cfg" =>
    \A i \in MemVisits :
      IF ~InArraysMode(i) THEN NoArrayStatement(i)
      ELSE IF AccessArray(i) < 0
      THEN BlockEmitted(i) = (IF IsLoad(i) THEN <<StHavoc(VisitedDst(i))>> ELSE <<>>)
      ELSE IF lookup(input.ctx, AccessPointer(i)) = None
      THEN Len(BlockEmitted(i)) = 1 /\ BlockEmitted(i)[1].op = "havoc"
      ELSE (IsLoad(i) \/ StoredValue(i) # None) => AccessStatement(i)

\* What holds: the same, but a store whose pointer or whose value does not
\* look up emits nothing.
C23_StoreWithoutHavoc ==
  input.kind = "cfg" =>
    \A i \in MemVisits :
      IF ~InArraysMode(i) THEN NoArrayStatement(i)
      ELSE IF AccessArray(i) < 0
      THEN BlockEmitted(i) = (IF IsLoad(i) THEN <<StHavoc(VisitedDst(i))>> ELSE <<>>)
      ELSE IF lookup(input.ctx, AccessPointer(i)) = None
      THEN BlockEmitted(i) = (IF IsLoad(i) THEN <<StHavoc(VisitedDst(i))>> ELSE <<>>)
      ELSE IF ~IsLoad(i) /\ StoredValue(i) = None THEN BlockEmitted(i) = <<>>
      ELSE AccessStatement(i)

\* A store into array 1, no singleton, was translated to an array_store.
C23_StoreWithoutHavocWitness ==
  /\ Built
  /\ \E i \in MemVisits :
       /\ ~IsLoad(i) /\ InArraysMode(i)
       /\ AccessArray(i) = 1
       /\ getSingleton(input.mem, 1) = None
       /\ BlockEmitted(i) = <<StArrayStore(symVarArr(1), ExpVar(symVar(P)), ExpCst(1), 4)>>


(***************************************************************************)
(* Conditional branches on a constant.                                     *)
(***************************************************************************)
\* The lowered edges of the conditional branches whose condition is a
\* constant.
ConstCondEdgeRecs ==
  {i \in EdgeRecs : /\ GivenTerm(last[i].id).op = "cbr"
                    /\ GivenTerm(last[i].id).cond.k = "const"}

\* The edge is the one the constant rules out: the false successor's when
\* the constant is 1, the true successor's when it is 0.
RuledOut(i) ==
  LET c == GivenTerm(last[i].id).cond
  IN (c.id = 1 /\ last[i].k = 2) \/ (c.id = 0 /\ last[i].k = 1)

HasUnreachable(i) ==
  \E j \in Idx(cfg.stmts[last[i].mid]) : cfg.stmts[last[i].mid][j] = StUnreachable

\* No statement execBr put in the edge block is an assume.
NoConditionAssume(i) ==
  \A j \in 1 .. last[i].at : cfg.stmts[last[i].mid][j].op # "assume"

SameSuccessors(i) ==
  GivenTerm(last[i].id).succs[1] = GivenTerm(last[i].id).succs[2]

\* C24 as stated: the edge block of the successor the constant rules out
\* has an unreachable statement, the edge block of the successor it selects
\* has none, and neither has an assume of the condition.
C24_UnreachableOnRuledOutEdge ==
  Built =>
    \A i \in ConstCondEdgeRecs :
      /\ last[i].mid # NoLabel
      /\ HasUnreachable(i) <=> RuledOut(i)
      /\ NoConditionAssume(i)

\* C24 amended: that holds when the two successors are different blocks;
\* when they are one block neither edge block has an unreachable statement.
C24_UnreachableOnRuledOutBlock ==
  Built =>
    \A i \in ConstCondEdgeRecs :
      /\ last[i].mid # NoLabel
      /\ HasUnreachable(i) <=> (RuledOut(i) /\ ~SameSuccessors(i))
      /\ NoConditionAssume(i)

\* br true, 3, 2 into a block with a phi: the edge block to block 2 is
\* unreachable and the other is empty.
C24_Witness ==
  /\ Built
  /\ \E i, j \in ConstCondEdgeRecs :
       /\ last[i].id = last[j].id
       /\ last[i].k = 2 /\ last[j].k = 1
       /\ GivenTerm(last[i].id).cond = True
       /\ last[i].dst = 2 /\ last[j].dst = 3
       /\ HasUnreachable(i) /\ ~HasUnreachable(j)
       /\ Len(cfg.stmts[last[i].mid]) = 2


(***************************************************************************)
(* Selects.                                                                *)
(***************************************************************************)
\* Visits of a block whose last instruction is a tracked select with a
\* true and a false value that look up, the instructions before it being
\* compares; the select.
SelectOf(i) ==
  LET body == input.ir.blocks[last[i].id].body IN body[Len(body)]

SelectVisits ==
  {i \in BlockRecs :
     LET blk == input.ir.blocks[last[i].id]
     IN /\ blk.phis = <<>> /\ blk.body # <<>>
        /\ \A j \in 1 .. Len(blk.body) - 1 : input.ir.insts[blk.body[j]].op = "icmp"
        /\ LET I == input.ir.insts[blk.body[Len(blk.body)]]
           IN /\ I.op = "select"
              /\ isTracked(input.ctx, InstV(I.ty, blk.body[Len(blk.body)]))
              /\ lookup(input.ctx, I.ops[2]) # None
              /\ lookup(input.ctx, I.ops[3]) # None}

\* The statement of the select: the value chosen by a constant condition, a
\* select on the one constraint of a compare, or a select on the variable
\* of the condition.
SelectStatement(i) ==
  LET I == input.ir.insts[SelectOf(i)]
      dst == symVar(InstV(I.ty, SelectOf(i)))
      cond == I.ops[1]
      t == lookup(input.ctx, I.ops[2])
      f == lookup(input.ctx, I.ops[3])
      cs == IF isCmpInst(input.ir, cond)
            THEN gen_assertion(input.ctx, input.ir, cond.id, FALSE).res ELSE <<>>
  IN IF cond = True THEN StAssign(dst, t)
     ELSE IF cond = False THEN StAssign(dst, f)
     ELSE IF Len(cs) = 1
     THEN [op |-> "select", lhs |-> dst, cond |-> cs[1], t |-> t, f |-> f]
     ELSE [op |-> "select", lhs |-> dst, cond |-> ExpVar(symVar(cond)), t |-> t, f |-> f]

\* The values of the select are no integers and pointer arithmetic is
\* disabled.
SelectPassedOver(i) ==
  LET I == input.ir.insts[SelectOf(i)]
  IN input.ctx.NoPtrArith /\ (~isIntegerTy(I.ops[2].ty) \/ ~isIntegerTy(I.ops[3].ty))

\* C25 as stated: every tracked select whose two values look up is
\* translated to exactly one statement, the assignment of the value a
\* constant condition chooses, the select on the single constraint of a
\* compare, or else the select on the condition's variable.
C25_SelectAllTypes ==
  input.kind = "cfg" =>
    \A i \in SelectVisits : BlockEmitted(i) = <<SelectStatement(i)>>

\* C25 amended: that holds unless pointer arithmetic is disabled and a
\* value of the select is no integer; then nothing is emitted.
C25_Select ==
  input.kind = "cfg" =>
    \A i \in SelectVisits :
      BlockEmitted(i) = (IF SelectPassedOver(i) THEN <<>> ELSE <<SelectStatement(i)>>)

\* A select between two integers on a compare with one constraint, pointer
\* arithmetic disabled: the compare was normalized and its constraint is
\* the condition of the select statement.
C25_Witness ==
  /\ Built
  /\ input.ctx.NoPtrArith
  /\ \E i \in SelectVisits :
       /\ input.ir.insts[SelectOf(i)].ops = <<I1, X, Y>>
       /\ input.ir.insts[1].pred = "SGT"
       /\ BlockEmitted(i)
            = <<StSelectCst(symVar(InstV("int", 2)),
                            CstLe(ExpVar(symVar(Y)), ExpVar(symVar(X)), 0 - 1),
                            ExpVar(symVar(X)), ExpVar(symVar(Y)))>>


(***************************************************************************)
(* The uses that let a cast go untranslated.                               *)
(***************************************************************************)
\* Visits of a block that holds one instruction, a tracked pointer cast of
\* a value that looks up; such a cast is translated to one assignment
\* unless AllUsesAreNonTrackMem says that it has no use worth it.
CastVisits ==
  {i \in BlockRecs :
     LET blk == input.ir.blocks[last[i].id]
     IN /\ blk.phis = <<>> /\ Len(blk.body) = 1
        /\ LET I == input.ir.insts[blk.body[1]]
           IN /\ I.op = "bitcast"
              /\ isTracked(input.ctx, InstV(I.ty, blk.body[1]))
              /\ ~input.ctx.NoPtrArith
              /\ lookup(input.ctx, I.ops[1]) # None}

CastOf(i) == input.ir.blocks[last[i].id].body[1]

\* What the visit shows of the answer: true when nothing was emitted.
AnsweredTrue(i) == BlockEmitted(i) = <<>>

CalleeName(U) == IF U.callee = 0 THEN "" ELSE input.fns[U.callee].name

\* Every use of instruction id is a load of a value that is no integer, a
\* store of a value that is no integer, a call of a shadow-memory or debug
\* function, or a cast of which the same is true.
RECURSIVE NonTrackableUses(_)
NonTrackableUses(id) ==
  \A u \in Uses(input.ir, id) :
    /\ u.user = "inst"
    /\ LET U == input.ir.insts[u.at]
       IN CASE U.op = "load" -> ~isIntegerTy(U.ty)
            [] U.op = "store" -> ~isIntegerTy(U.ops[1].ty)
            [] U.op = "call" -> \/ StartsWith(CalleeName(U), "shadow.mem")
                                \/ StartsWith(CalleeName(U), "llvm.dbg")
            [] U.op \in {"bitcast", "zext"} -> NonTrackableUses(u.at)
            [] OTHER -> FALSE

\* Every use is a load or a store of a value that is no integer, or a call
\* of any function.
MemoryOrCallUses(id) ==
  \A u \in Uses(input.ir, id) :
    /\ u.user = "inst"
    /\ LET U == input.ir.insts[u.at]
       IN CASE U.op = "load" -> ~isIntegerTy(U.ty)
            [] U.op = "store" -> ~isIntegerTy(U.ops[1].ty)
            [] U.op = "call" -> TRUE
            [] OTHER -> FALSE

\* C26: AllUsesAreNonTrackMem(v) is true if and only if every use of v is a
\* non-integer load, a non-integer store, a call of a shadow-memory or debug
\* function, or a cast whose uses are of these kinds in turn; a call of
\* another function makes it false.
C26_NonTrackableUses ==
  Built =>
    \A i \in CastVisits :
      /\ AnsweredTrue(i) <=> AllUsesAreNonTrackMem(input.ir, CastOf(i))
      /\ AllUsesAreNonTrackMem(input.ir, CastOf(i)) <=> NonTrackableUses(CastOf(i))

\* What holds: the answer is true if and only if every use is a non-integer
\* load, a non-integer store or a call, of whatever function.
C26_MemoryOrCallUses ==
  Built =>
    \A i \in CastVisits :
      /\ AnsweredTrue(i) <=> AllUsesAreNonTrackMem(input.ir, CastOf(i))
      /\ AllUsesAreNonTrackMem(input.ir, CastOf(i)) <=> MemoryOrCallUses(CastOf(i))

\* A cast used by a load of a float and by a call of g was left out.
C26_MemoryOrCallUsesWitness ==
  /\ Built
  /\ \E i \in CastVisits :
       /\ AnsweredTrue(i)
       /\ input.ir.insts[2] = Load("flt", InstV("ptr", 1))
       /\ input.ir.insts[3] = Call("int", 2, <<InstV("ptr", 1)>>)

====
